---- MODULE Spec2Model ----
(***************************************************************************)
(* plan-loop core: the session state machine (packages/core/src/tools.ts)  *)
(* over the file store (packages/core/src/state.ts), called by independent *)
(* processes that share nothing but the state directory.                   *)
(*                                                                         *)
(* A tool call is one synchronous function call inside its process; what   *)
(* other processes can interleave with are its file-system calls.  A call  *)
(* is therefore cut at its system calls: the read of load, the temp-file   *)
(* write and the rename of save, the existence test and the unlink of      *)
(* remove.  Everything a handler does between two system calls belongs to  *)
(* the step of the earlier one.                                            *)
(***************************************************************************)
EXTENDS Integers, Sequences, FiniteSets, TLC

(***************************************************************************)
(* Text.  A JavaScript string is a sequence of one-character strings.      *)
(***************************************************************************)
Rep(c, n) == [i \in 1..n |-> c]

Whitespace == {" "}

RECURSIVE TrimStart(_)
TrimStart(s) ==
    IF s = <<>> THEN <<>>
    ELSE IF Head(s) \in Whitespace THEN TrimStart(Tail(s)) ELSE s

RECURSIVE TrimEnd(_)
TrimEnd(s) ==
    IF s = <<>> THEN <<>>
    ELSE IF s[Len(s)] \in Whitespace THEN TrimEnd(SubSeq(s, 1, Len(s) - 1)) ELSE s

Trim(s) == TrimEnd(TrimStart(s))

(***************************************************************************)
(* JavaScript values that reach the handlers as inputs.                    *)
(***************************************************************************)
Undefined == [t |-> "undefined"]
Str(s) == [t |-> "string", v |-> s]
Num(n) == [t |-> "number", v |-> n, integer |-> TRUE]
\* a number with a fractional part, n + 1/2
Frac(n) == [t |-> "number", v |-> n, integer |-> FALSE]
Bool(b) == [t |-> "boolean", v |-> b]

isNonEmptyString(value) == value.t = "string" /\ Trim(value.v) # <<>>

(***************************************************************************)
(* Session identifiers.                                                    *)
(***************************************************************************)
UpperCase ==
    <<"A", "B", "C", "D", "E", "F", "G", "H", "I", "J", "K", "L", "M",
      "N", "O", "P", "Q", "R", "S", "T", "U", "V", "W", "X", "Y", "Z">>

LowerCase ==
    <<"a", "b", "c", "d", "e", "f", "g", "h", "i", "j", "k", "l", "m",
      "n", "o", "p", "q", "r", "s", "t", "u", "v", "w", "x", "y", "z">>

UpperToLower ==
    [c \in {UpperCase[i] : i \in 1..26} |->
        LowerCase[CHOOSE i \in 1..26 : UpperCase[i] = c]]

keepCase(s) == s

toLowerCase(s) ==
    [i \in 1..Len(s) |-> IF s[i] \in DOMAIN UpperToLower THEN UpperToLower[s[i]] ELSE s[i]]

LowerToUpper ==
    [c \in {LowerCase[i] : i \in 1..26} |->
        UpperCase[CHOOSE i \in 1..26 : LowerCase[i] = c]]

toUpperCase(s) ==
    [i \in 1..Len(s) |-> IF s[i] \in DOMAIN LowerToUpper THEN LowerToUpper[s[i]] ELSE s[i]]

HexLower == {"0", "1", "2", "3", "4", "5", "6", "7", "8", "9",
             "a", "b", "c", "d", "e", "f"}

\* /^[0-9a-f]{8}-[0-9a-f]{4}-4[0-9a-f]{3}-[89ab][0-9a-f]{3}-[0-9a-f]{12}$/
UUID_V4_REGEX(s) ==
    /\ Len(s) = 36
    /\ \A i \in 1..36 :
          IF i \in {9, 14, 19, 24} THEN s[i] = "-"
          ELSE IF i = 15 THEN s[i] = "4"
          ELSE IF i = 20 THEN s[i] \in {"8", "9", "a", "b"}
          ELSE s[i] \in HexLower

\* normalizeSessionId: null for a non-string, else the lower-cased string
Null == [t |-> "null"]

normalizeSessionId(id) == IF id.t # "string" THEN Null ELSE Str(toLowerCase(id.v))

\* a test of the length alone
isValidSessionIdByLength(id) == id.t = "string" /\ Len(id.v) >= 36

isValidSessionId(id) == id.t = "string" /\ UUID_V4_REGEX(id.v)

\* getSecureFilePath: the canonical id naming the file <stateDir>/<id>.json,
\* or Null.  An empty normalized id is falsy and is refused like a non-string.
\* A string of UUID shape holds no separator and no dot, so the resolved
\* path is the direct child <id>.json of the state directory and the
\* path.relative test never fires.
getSecureFilePath(id) ==
    LET normalizedId == normalizeSessionId(id) IN
    IF normalizedId = Null \/ normalizedId.v = <<>> THEN Null
    ELSE IF ~isValidSessionId(normalizedId) THEN Null
    ELSE normalizedId

IdA == <<"a", "1", "b", "2", "c", "3", "d", "4">> \o <<"-">> \o Rep("e", 4) \o <<"-">>
         \o <<"4", "f", "0", "a">> \o <<"-">> \o <<"8", "b", "c", "d">> \o <<"-">> \o Rep("9", 12)
IdB == <<"0", "0", "f", "f", "0", "0", "f", "f">> \o <<"-">> \o Rep("1", 4) \o <<"-">>
         \o <<"4", "2", "2", "2">> \o <<"-">> \o <<"b", "3", "3", "3">> \o <<"-">> \o Rep("c", 12)

\* the identifiers crypto.randomUUID() hands out in the model
UuidPool == {IdA}

\* 'fake-id', the malformed identifier of the tool tests
FakeId == <<"f", "a", "k", "e", "-", "i", "d">>

(***************************************************************************)
(* Sessions (types.ts) and the responses of the tools.                     *)
(***************************************************************************)
SessionStatus == {"drafting", "pending_review", "pending_revision", "approved", "exhausted"}

RED == "red"
YELLOW == "yellow"
GREEN == "green"
validRatings == {RED, YELLOW, GREEN}

NoFile == [t |-> "nofile"]
NoCall == [op |-> "none"]
NoResult == [t |-> "none"]
NoReturn == [op |-> "none"]
\* an exception that leaves the tool function
Thrown(message) == [t |-> "thrown", message |-> message]

errorResponse(message) == [t |-> "response", isError |-> TRUE, text |-> message]
successResponse(data) == [t |-> "response", isError |-> FALSE, text |-> data]

\* what a handler has decided once its load has returned
Respond(response) == [next |-> "return", response |-> response, session |-> Null]
SaveThen(session) == [next |-> "save", response |-> NoResult, session |-> session]
RemoveThen(session) == [next |-> "remove", response |-> NoResult, session |-> session]

getFirstPlan(session) ==
    IF Len(session.plans) = 0 THEN Null ELSE session.plans[1]

getLatestPlan(session) ==
    IF Len(session.plans) = 0 THEN Null ELSE session.plans[Len(session.plans)]

getFirstFeedback(session) ==
    IF Len(session.feedbacks) = 0 THEN Null ELSE session.feedbacks[1]

getLatestFeedback(session) ==
    IF Len(session.feedbacks) = 0 THEN Null ELSE session.feedbacks[Len(session.feedbacks)]

VARIABLES
    files,    \* <stateDir>/<id>.json : the record files, by canonical id
    temps,    \* <stateDir>/<id>.json.tmp : the temporary files of save
    issued,   \* the identifiers randomUUID has handed out
    pc,       \* where each process is inside its tool call
    call,     \* the tool and the input of each process's call
    loaded,   \* what the call's load returned
    local,    \* the Session object the call holds in memory
    returned, \* the call that returned to its caller in the last step
    now,      \* the clock new Date() reads
    fd        \* where the file each process holds open for writing is now

vars == <<files, temps, issued, pc, call, loaded, local, returned, now, fd>>

Procs == {"p1", "p2"}

(***************************************************************************)
(* state.ts: the store.                                                    *)
(***************************************************************************)
ReadFile(name) == IF name \in DOMAIN files THEN files[name] ELSE NoFile

\* the 8-4-4-4-12 hexadecimal shape z.string().uuid() asks of the id field
IsUuidShape(s) ==
    /\ Len(s) = 36
    /\ \A i \in 1..36 :
          IF i \in {9, 14, 19, 24} THEN s[i] = "-" ELSE toLowerCase(s)[i] \in HexLower

PlanSchema(plan) == plan.version >= 0

FeedbackSchema(feedback) == feedback.planVersion >= 0 /\ feedback.rating \in validRatings

\* A file holds a JSON object (a record of the model) or a text JSON.parse
\* refuses: the empty text of a file just opened for writing, the text of
\* one document written over a longer one, or any other text.
Text(chars) == [t |-> "text", v |-> chars]

Empty == Text(<<>>)

Mixed == Text(<<"{", "}", "}">>)

JSONparse(data) == IF "t" \in DOMAIN data THEN Null ELSE data

SessionFields ==
    {"id", "goal", "status", "version", "iteration", "maxIterations", "plans", "feedbacks",
     "createdAt", "updatedAt"}

\* the schema with version: z.number().int().positive()
SessionSchemaPositiveVersion(parsed) ==
    /\ SessionFields \subseteq DOMAIN parsed
    /\ IsUuidShape(parsed.id)
    /\ Len(parsed.goal) >= 1
    /\ parsed.status \in SessionStatus
    /\ parsed.version > 0
    /\ parsed.iteration >= 0
    /\ parsed.maxIterations > 0

SessionSchema(parsed) ==
    /\ SessionFields \subseteq DOMAIN parsed
    /\ IsUuidShape(parsed.id)
    /\ Len(parsed.goal) >= 1
    /\ parsed.status \in SessionStatus
    /\ parsed.version >= 0
    /\ parsed.iteration >= 0
    /\ parsed.maxIterations > 0
    /\ \A i \in 1..Len(parsed.plans) : PlanSchema(parsed.plans[i])
    /\ \A i \in 1..Len(parsed.feedbacks) : FeedbackSchema(parsed.feedbacks[i])

\* the same without the test of the id field against the file name
parseSessionAnyId(data, normalizedId) ==
    LET parsed == JSONparse(data) IN
    IF parsed = Null THEN Null
    ELSE IF ~SessionSchema(parsed) THEN Null
    ELSE [f \in SessionFields |-> parsed[f]]

\* load, from JSON.parse on: the record, without the keys the schema does
\* not know, or Null
parseSession(data, normalizedId) ==
    LET parsed == JSONparse(data) IN
    IF parsed = Null THEN Null
    ELSE IF ~SessionSchema(parsed) THEN Null
    ELSE IF parsed.id # normalizedId THEN Null
    ELSE [f \in SessionFields |-> parsed[f]]

\* load: the record of the canonical id, or Null
load(id) ==
    LET pathResult == getSecureFilePath(id) IN
    IF pathResult = Null THEN Null
    ELSE LET data == ReadFile(pathResult.v) IN
         IF data = NoFile THEN Null
         ELSE parseSession(data, pathResult.v)

\* create: the record of a new session, before its save
create(goal, maxIterations, uuid) ==
    [id |-> uuid, goal |-> goal, status |-> "drafting", version |-> 0, iteration |-> 0,
     maxIterations |-> maxIterations, plans |-> <<>>, feedbacks |-> <<>>,
     createdAt |-> now, updatedAt |-> now]

(***************************************************************************)
(* tools.ts: what each handler decides from its input and from the record  *)
(* its load returned, up to its call of save or remove.                    *)
(***************************************************************************)
DefaultMaxIterations == 5

\* a test of maxIterations that lets zero through
plStartAllowsZero(input, uuid) ==
    LET goal == input.goal
        maxIterations == IF input.maxIterations = Undefined
                         THEN Num(DefaultMaxIterations) ELSE input.maxIterations
    IN  IF ~isNonEmptyString(goal)
        THEN Respond(errorResponse([error |-> "goal is required"]))
        ELSE IF maxIterations.t # "number" \/ ~maxIterations.integer \/ maxIterations.v < 0
        THEN Respond(errorResponse([error |-> "maxIterations must be a positive integer"]))
        ELSE SaveThen(create(goal.v, maxIterations.v, uuid))

plStart(input, uuid) ==
    LET goal == input.goal
        maxIterations == IF input.maxIterations = Undefined
                         THEN Num(DefaultMaxIterations) ELSE input.maxIterations
    IN  IF ~isNonEmptyString(goal)
        THEN Respond(errorResponse([error |-> "goal is required"]))
        ELSE IF maxIterations.t # "number" \/ ~maxIterations.integer \/ maxIterations.v < 1
        THEN Respond(errorResponse([error |-> "maxIterations must be a positive integer"]))
        ELSE SaveThen(create(goal.v, maxIterations.v, uuid))

plStartReply(session) == successResponse([session_id |-> session.id])

plSubmitAllowedStatesWide == <<"drafting", "pending_revision", "pending_review">>

plSubmitAllowedStatesDraftingOnly == <<"drafting">>

plSubmitAllowedStatesWithApproved == <<"drafting", "pending_revision", "approved">>

plSubmitAllowedStates == <<"drafting", "pending_revision">>

includes(array, value) == \E i \in 1..Len(array) : array[i] = value

\* session.version += 1; session.plans.push({...}); session.status = ...
submitPlanKeepsVersion(session, plan) ==
    [session EXCEPT
       !.plans = Append(session.plans, [version |-> session.version, content |-> plan]),
       !.status = "pending_review"]

submitPlanUnshifts(session, plan) ==
    [session EXCEPT
       !.version = session.version + 1,
       !.plans = <<[version |-> session.version + 1, content |-> plan]>> \o session.plans,
       !.status = "pending_review"]

\* a submission that leaves the status as it was
submitPlanKeepsStatus(session, plan) ==
    [session EXCEPT
       !.version = session.version + 1,
       !.plans = Append(session.plans, [version |-> session.version + 1, content |-> plan])]

submitPlan(session, plan) ==
    [session EXCEPT
       !.version = session.version + 1,
       !.plans = Append(session.plans, [version |-> session.version + 1, content |-> plan]),
       !.status = "pending_review"]

plSubmit(input, session) ==
    IF ~isNonEmptyString(input.session_id)
    THEN Respond(errorResponse([error |-> "session_id is required"]))
    ELSE IF session = Null
    THEN Respond(errorResponse([error |-> "Session not found", session_id |-> input.session_id]))
    ELSE IF ~includes(plSubmitAllowedStates, session.status)
    THEN Respond(errorResponse([error |-> "Invalid state", current |-> session.status,
                                expected |-> plSubmitAllowedStates]))
    ELSE IF ~isNonEmptyString(input.plan)
    THEN Respond(errorResponse([error |-> "plan is required"]))
    ELSE SaveThen(submitPlan(session, input.plan.v))

plSubmitReply(session) == successResponse([version |-> session.version, status |-> session.status])

plFeedbackAllowedStatesWide == <<"pending_review", "pending_revision">>

plFeedbackAllowedStates == <<"pending_review">>

\* plan_version !== latestPlan.version
planVersionOlder(plan_version, latestPlan) == plan_version.v < latestPlan.version

planVersionDiffers(plan_version, latestPlan) == plan_version.v # latestPlan.version

addFeedbackOnNextVersion(session, planVersion, rating, content) ==
    [session EXCEPT !.feedbacks = Append(session.feedbacks,
        [planVersion |-> planVersion + 1, rating |-> rating, content |-> content])]

\* session.feedbacks.push({...})
addFeedback(session, planVersion, rating, content) ==
    [session EXCEPT !.feedbacks =
        Append(session.feedbacks,
               [planVersion |-> planVersion, rating |-> rating, content |-> content])]

\* "Update status based on rating"
rateCountsApproval(session, rating) ==
    [session EXCEPT
       !.iteration = session.iteration + 1,
       !.status = IF rating = GREEN THEN "approved"
                  ELSE IF session.iteration + 1 >= session.maxIterations
                  THEN "exhausted" ELSE "pending_revision"]

rateExhaustsLate(session, rating) ==
    IF rating = GREEN
    THEN [session EXCEPT !.status = "approved"]
    ELSE [session EXCEPT
            !.iteration = session.iteration + 1,
            !.status = IF session.iteration + 1 > session.maxIterations
                       THEN "exhausted" ELSE "pending_revision"]

\* a cap reached one iteration early
rateExhaustsEarly(session, rating) ==
    IF rating = GREEN
    THEN [session EXCEPT !.status = "approved"]
    ELSE [session EXCEPT
            !.iteration = session.iteration + 1,
            !.status = IF session.iteration + 2 >= session.maxIterations
                       THEN "exhausted" ELSE "pending_revision"]

rate(session, rating) ==
    IF rating = GREEN
    THEN [session EXCEPT !.status = "approved"]
    ELSE [session EXCEPT
            !.iteration = session.iteration + 1,
            !.status = IF session.iteration + 1 >= session.maxIterations
                       THEN "exhausted" ELSE "pending_revision"]

plFeedback(input, session) ==
    IF ~isNonEmptyString(input.session_id)
    THEN Respond(errorResponse([error |-> "session_id is required"]))
    ELSE IF session = Null
    THEN Respond(errorResponse([error |-> "Session not found", session_id |-> input.session_id]))
    ELSE IF ~includes(plFeedbackAllowedStates, session.status)
    THEN Respond(errorResponse([error |-> "Invalid state", current |-> session.status,
                                expected |-> plFeedbackAllowedStates]))
    ELSE IF input.rating \notin validRatings
    THEN Respond(errorResponse([error |-> "Invalid rating", rating |-> input.rating]))
    ELSE IF ~isNonEmptyString(input.content)
    THEN Respond(errorResponse([error |-> "content is required"]))
    ELSE LET latestPlan == getLatestPlan(session) IN
    IF latestPlan = Null
    THEN Respond(errorResponse([error |-> "No plan to provide feedback on"]))
    ELSE IF input.plan_version # Undefined
            /\ (input.plan_version.t # "number" \/ ~input.plan_version.integer)
    THEN Respond(errorResponse([error |-> "plan_version must be an integer"]))
    ELSE IF input.plan_version # Undefined /\ planVersionDiffers(input.plan_version, latestPlan)
    THEN Respond(errorResponse([error |-> "Plan version mismatch",
                                expected |-> latestPlan.version,
                                provided |-> input.plan_version.v]))
    ELSE SaveThen(rate(addFeedback(session, latestPlan.version, input.rating, input.content.v),
                       input.rating))

plFeedbackReply(session) ==
    successResponse([status |-> session.status, iteration |-> session.iteration])

\* the tag plForceApprove puts before the reason
plGetPlan(input, session) ==
    IF ~isNonEmptyString(input.session_id)
    THEN Respond(errorResponse([error |-> "session_id is required"]))
    ELSE IF session = Null
    THEN Respond(errorResponse([error |-> "Session not found", session_id |-> input.session_id]))
    ELSE LET latestPlan == getLatestPlan(session)
         IN  IF latestPlan = Null
             THEN Respond(successResponse([ready |-> FALSE, reason |-> "no_plan_submitted"]))
             ELSE Respond(successResponse([ready |-> TRUE, data |-> latestPlan]))

\* a tool that tests the shape of the identifier itself
plStatusTestsIdShape(input, session) ==
    IF ~isNonEmptyString(input.session_id)
    THEN Respond(errorResponse([error |-> "session_id is required"]))
    ELSE IF ~isValidSessionId(normalizeSessionId(input.session_id))
    THEN Respond(errorResponse([error |-> "session_id is malformed"]))
    ELSE IF session = Null
    THEN Respond(errorResponse([error |-> "Session not found", session_id |-> input.session_id]))
    ELSE Respond(successResponse(session))

\* a status that leaves the feedbacks out
plStatusWithoutFeedbacks(input, session) ==
    IF ~isNonEmptyString(input.session_id)
    THEN Respond(errorResponse([error |-> "session_id is required"]))
    ELSE IF session = Null
    THEN Respond(errorResponse([error |-> "Session not found", session_id |-> input.session_id]))
    ELSE Respond(successResponse([session EXCEPT !.feedbacks = <<>>]))

plStatus(input, session) ==
    IF ~isNonEmptyString(input.session_id)
    THEN Respond(errorResponse([error |-> "session_id is required"]))
    ELSE IF session = Null
    THEN Respond(errorResponse([error |-> "Session not found", session_id |-> input.session_id]))
    ELSE Respond(successResponse(session))

plGetFeedback(input, session) ==
    IF ~isNonEmptyString(input.session_id)
    THEN Respond(errorResponse([error |-> "session_id is required"]))
    ELSE IF session = Null
    THEN Respond(errorResponse([error |-> "Session not found", session_id |-> input.session_id]))
    ELSE LET latestPlan == getLatestPlan(session)
             latestFeedback == getLatestFeedback(session)
         IN  IF latestPlan = Null
             THEN Respond(successResponse([ready |-> FALSE, reason |-> "no_plan_submitted"]))
             ELSE IF latestFeedback = Null \/ latestFeedback.planVersion < latestPlan.version
             THEN Respond(successResponse(
                      [ready |-> FALSE,
                       reason |-> IF session.status = "pending_review"
                                  THEN "awaiting_feedback" ELSE "no_feedback_yet"]))
             ELSE Respond(successResponse([ready |-> TRUE, data |-> latestFeedback]))

ForceApprovedTag == <<"[", "F", "O", "R", "C", "E", " ", "A", "P", "P", "R", "O", "V", "E", "D", "]", " ">>

plForceApproveAllowedStatesWide == <<"exhausted", "pending_revision">>

plForceApproveAllowedStates == <<"exhausted">>

\* an override that leaves no entry in the feedback history
plForceApproveWithoutEntry(input, session) ==
    IF ~isNonEmptyString(input.session_id)
    THEN Respond(errorResponse([error |-> "session_id is required"]))
    ELSE IF session = Null
    THEN Respond(errorResponse([error |-> "Session not found", session_id |-> input.session_id]))
    ELSE IF ~includes(plForceApproveAllowedStates, session.status)
    THEN Respond(errorResponse([error |-> "Invalid state", current |-> session.status,
                                expected |-> plForceApproveAllowedStates]))
    ELSE IF ~isNonEmptyString(input.reason)
    THEN Respond(errorResponse([error |-> "reason is required"]))
    ELSE SaveThen([session EXCEPT !.status = "approved"])

plForceApprove(input, session) ==
    IF ~isNonEmptyString(input.session_id)
    THEN Respond(errorResponse([error |-> "session_id is required"]))
    ELSE IF session = Null
    THEN Respond(errorResponse([error |-> "Session not found", session_id |-> input.session_id]))
    ELSE IF ~includes(plForceApproveAllowedStates, session.status)
    THEN Respond(errorResponse([error |-> "Invalid state", current |-> session.status,
                                expected |-> plForceApproveAllowedStates]))
    ELSE IF ~isNonEmptyString(input.reason)
    THEN Respond(errorResponse([error |-> "reason is required"]))
    ELSE LET latestPlan == getLatestPlan(session) IN
         SaveThen([addFeedback(session,
                               IF latestPlan = Null THEN session.version ELSE latestPlan.version,
                               GREEN, ForceApprovedTag \o input.reason.v)
                     EXCEPT !.status = "approved"])

plForceApproveReply(session) == successResponse([status |-> "approved"])

plDeleteSafeStatesWide == <<"approved", "exhausted", "pending_review">>

plDeleteSafeStates == <<"approved", "exhausted">>

plDelete(input, session) ==
    LET force == IF input.force = Undefined THEN Bool(FALSE) ELSE input.force IN
    IF ~isNonEmptyString(input.session_id)
    THEN Respond(errorResponse([error |-> "session_id is required"]))
    ELSE IF session = Null
    THEN Respond(errorResponse([error |-> "Session not found", session_id |-> input.session_id]))
    ELSE IF ~includes(plDeleteSafeStates, session.status) /\ ~force.v
    THEN Respond(errorResponse([error |-> "Cannot delete active session",
                                status |-> session.status]))
    ELSE RemoveThen(session)

plDeleteReply(input, deleted) ==
    IF ~deleted
    THEN errorResponse([error |-> "Failed to delete session", session_id |-> input.session_id])
    ELSE successResponse([deleted |-> TRUE, session_id |-> input.session_id])

(***************************************************************************)
(* The inputs the processes call the tools with.                           *)
(***************************************************************************)
\* the largest maxIterations a caller asks plStart for
MaxIterationsAsked == 2

\* The calls on the session under study (maxIterations 0 is the one plStart refuses).
StartInputs == {[goal |-> Str(<<"g">>), maxIterations |-> Num(n)] : n \in 0..MaxIterationsAsked}

SubmitInputs == {[session_id |-> Str(IdA), plan |-> Str(<<"A">>)]}

FeedbackInputs ==
    {[session_id |-> Str(IdA), rating |-> rating, content |-> Str(<<"c">>), plan_version |-> v] :
        rating \in validRatings, v \in {Undefined} \cup {Num(n) : n \in 1..MaxIterationsAsked}}

ForceApproveInputs == {[session_id |-> Str(IdA), reason |-> Str(<<"r">>)]}

DeleteInputs == {[session_id |-> Str(IdA), force |-> force] : force \in {Undefined, Bool(TRUE)}}

\* The other identifiers a caller may pass: the same in upper case, a
\* well-formed one that names no session, a malformed one, the empty string.
OtherSessionIds == {Str(toUpperCase(IdA)), Str(IdB), Str(FakeId), Str(<<>>)}

\* Further calls: with a faulty field, on another identifier, with another text.
OtherStartInputs ==
    {[goal |-> Str(<<"g">>), maxIterations |-> m] : m \in {Num(-1), Frac(1), Undefined}}
    \cup {[goal |-> g, maxIterations |-> Num(1)] : g \in {Str(<<" ">>), Str(<<>>), Undefined}}

OtherSubmitInputs ==
    {[session_id |-> Str(IdA), plan |-> plan] : plan \in {Str(<<" ">>), Str(<<>>), Undefined}}
    \cup {[session_id |-> Str(IdA), plan |-> Str(<<" ", "B", " ">>)]}
    \cup {[session_id |-> id, plan |-> Str(<<"A">>)] : id \in OtherSessionIds}

OtherFeedbackInputs ==
    {[session_id |-> Str(IdA), rating |-> "invalid", content |-> Str(<<"c">>),
      plan_version |-> Undefined],
     [session_id |-> Str(IdA), rating |-> GREEN, content |-> Str(<<>>),
      plan_version |-> Undefined],
     [session_id |-> Str(IdA), rating |-> "invalid", content |-> Str(<<" ">>),
      plan_version |-> Frac(1)],
     [session_id |-> Str(IdA), rating |-> RED, content |-> Str(<<"c">>),
      plan_version |-> Frac(1)],
     [session_id |-> Str(IdA), rating |-> GREEN, content |-> Str(<<"c">>),
      plan_version |-> Num(0)]}
    \cup {[session_id |-> id, rating |-> GREEN, content |-> Str(<<"c">>),
           plan_version |-> Undefined] : id \in OtherSessionIds}

OtherForceApproveInputs ==
    {[session_id |-> Str(IdA), reason |-> reason] : reason \in {Str(<<" ">>), Undefined}}
    \cup {[session_id |-> id, reason |-> Str(<<"r">>)] : id \in OtherSessionIds}

OtherDeleteInputs ==
    {[session_id |-> id, force |-> Bool(TRUE)] : id \in OtherSessionIds}
    \cup {[session_id |-> Str(IdA), force |-> Bool(FALSE)]}

(***************************************************************************)
(* The steps of a tool call.                                               *)
(***************************************************************************)
Init ==
    /\ files = [name \in UuidPool |-> NoFile]
    /\ temps = [name \in UuidPool |-> NoFile]
    /\ issued = {}
    /\ pc = [p \in Procs |-> "idle"]
    /\ call = [p \in Procs |-> NoCall]
    /\ loaded = [p \in Procs |-> Null]
    /\ local = [p \in Procs |-> Null]
    /\ returned = NoReturn
    /\ now = 0
    /\ fd = [p \in Procs |-> "none"]

\* the call of p returns `response` (or leaves by an exception); the
\* process is free for its next call
Returns(p, c, session0, session, response) ==
    /\ returned' = [op |-> c.op, proc |-> p, input |-> c.input, loaded |-> session0,
                    session |-> session, response |-> response]
    /\ pc' = [pc EXCEPT ![p] = "idle"]
    /\ call' = [call EXCEPT ![p] = NoCall]
    /\ loaded' = [loaded EXCEPT ![p] = Null]
    /\ local' = [local EXCEPT ![p] = Null]

\* the call of p goes on to its next system call
Continues(p, c, session0, session, at) ==
    /\ returned' = NoReturn
    /\ pc' = [pc EXCEPT ![p] = at]
    /\ call' = [call EXCEPT ![p] = c]
    /\ loaded' = [loaded EXCEPT ![p] = session0]
    /\ local' = [local EXCEPT ![p] = session]

\* a save that stamps createdAt as well
ProceedStampsCreatedAt(p, op, input, session0, decided) ==
    LET c == [op |-> op, input |-> input] IN
    /\ UNCHANGED <<files, temps, now, fd>>
    /\ IF decided.next = "return"
       THEN Returns(p, c, session0, Null, decided.response)
       ELSE IF decided.next = "remove"
       THEN Continues(p, c, session0, decided.session, "exists")
       ELSE LET pathResult == getSecureFilePath(Str(decided.session.id)) IN
            IF pathResult = Null
            THEN Returns(p, c, session0, decided.session,
                         Thrown("Cannot save session with invalid id"))
            ELSE Continues(p, c, session0,
                           [decided.session EXCEPT !.updatedAt = now, !.createdAt = now,
                                                   !.id = pathResult.v],
                           "write")

\* The handler has decided: it returns, or goes on into save (whose first
\* work, up to the temp-file write, is the id check and normalization) or
\* into remove.
Proceed(p, op, input, session0, decided) ==
    LET c == [op |-> op, input |-> input] IN
    /\ UNCHANGED <<files, temps, now, fd>>
    /\ IF decided.next = "return"
       THEN Returns(p, c, session0, Null, decided.response)
       ELSE IF decided.next = "remove"
       THEN Continues(p, c, session0, decided.session, "exists")
       ELSE LET pathResult == getSecureFilePath(Str(decided.session.id)) IN
            IF pathResult = Null
            THEN Returns(p, c, session0, decided.session,
                         Thrown("Cannot save session with invalid id"))
            ELSE Continues(p, c, session0,
                           [decided.session EXCEPT !.updatedAt = now, !.id = pathResult.v],
                           "write")

PlStart(p, inputs) ==
    /\ returned = NoReturn
    /\ pc[p] = "idle"
    /\ \E input \in inputs, uuid \in UuidPool \ issued :
          LET decided == plStart(input, uuid)
          IN  /\ Proceed(p, "plStart", input, Null, decided)
              /\ issued' = IF decided.next = "save" THEN issued \cup {uuid} ELSE issued

PlSubmit(p, inputs) ==
    /\ returned = NoReturn
    /\ pc[p] = "idle"
    /\ \E input \in inputs :
          LET session == load(input.session_id)
          IN  Proceed(p, "plSubmit", input, session, plSubmit(input, session))
    /\ UNCHANGED issued

PlFeedback(p, inputs) ==
    /\ returned = NoReturn
    /\ pc[p] = "idle"
    /\ \E input \in inputs :
          LET session == load(input.session_id)
          IN  Proceed(p, "plFeedback", input, session, plFeedback(input, session))
    /\ UNCHANGED issued

PlForceApprove(p, inputs) ==
    /\ returned = NoReturn
    /\ pc[p] = "idle"
    /\ \E input \in inputs :
          LET session == load(input.session_id)
          IN  Proceed(p, "plForceApprove", input, session, plForceApprove(input, session))
    /\ UNCHANGED issued

PlDelete(p, inputs) ==
    /\ returned = NoReturn
    /\ pc[p] = "idle"
    /\ \E input \in inputs :
          LET session == load(input.session_id)
          IN  Proceed(p, "plDelete", input, session, plDelete(input, session))
    /\ UNCHANGED issued

\* save returns nothing
Void == [t |-> "void"]

\* what remove returns, and what plDelete makes of it
removeReply(c, deleted) ==
    IF c.op = "remove" THEN Bool(deleted) ELSE plDeleteReply(c.input, deleted)

\* The reading tools: what a caller passes them, and their one step.
GetPlanInputs ==
    {[session_id |-> id] : id \in {Str(IdA), Str(toUpperCase(IdA)), Str(IdB), Str(FakeId), Str(<<" ">>), Undefined}}

GetFeedbackInputs ==
    {[session_id |-> id] : id \in {Str(IdA), Str(toUpperCase(IdA)), Str(IdB), Str(FakeId), Str(<<" ">>), Undefined}}

PlGetFeedback(p, inputs) ==
    /\ returned = NoReturn
    /\ pc[p] = "idle"
    /\ \E input \in inputs :
          LET session == load(input.session_id)
          IN  Proceed(p, "plGetFeedback", input, session, plGetFeedback(input, session))
    /\ UNCHANGED issued

StatusInputs ==
    {[session_id |-> id] : id \in {Str(IdA), Str(toUpperCase(IdA)), Str(IdB), Str(FakeId), Str(<<" ">>), Undefined}}

PlGetPlan(p, inputs) ==
    /\ returned = NoReturn
    /\ pc[p] = "idle"
    /\ \E input \in inputs :
          LET session == load(input.session_id)
          IN  Proceed(p, "plGetPlan", input, session, plGetPlan(input, session))
    /\ UNCHANGED issued

PlStatus(p, inputs) ==
    /\ returned = NoReturn
    /\ pc[p] = "idle"
    /\ \E input \in inputs :
          LET session == load(input.session_id)
          IN  Proceed(p, "plStatus", input, session, plStatus(input, session))
    /\ UNCHANGED issued

\* what the handler returns once its save has returned
Reply(op, session) ==
    CASE op = "plStart" -> plStartReply(session)
      [] op = "plSubmit" -> plSubmitReply(session)
      [] op = "plFeedback" -> plFeedbackReply(session)
      [] op = "plForceApprove" -> plForceApproveReply(session)
      [] op = "save" -> Void
      [] op = "create" -> session

\* a save whose temporary file is the same one for every session
WriteTempShared(p) ==
    /\ returned = NoReturn
    /\ pc[p] = "write"
    /\ temps' = [temps EXCEPT ![IdA] = local[p]]
    /\ Continues(p, call[p], loaded[p], local[p], "rename")
    /\ UNCHANGED <<files, issued, now, fd>>

\* save: writeFileSync(tempPath, JSON.stringify(session))
WriteTemp(p) ==
    /\ returned = NoReturn
    /\ pc[p] = "write"
    /\ temps' = [temps EXCEPT ![local[p].id] = local[p]]
    /\ Continues(p, call[p], loaded[p], local[p], "rename")
    /\ UNCHANGED <<files, issued, now, fd>>

\* A file that a process holds open for writing stays the same file when
\* its path changes: after rename(<name>.json.tmp, <name>.json) the file
\* opened as the temporary file is the record file, and the file that was
\* the record file has no path any more.
Renamed(name) ==
    [q \in Procs |->
        IF fd[q] = "none" \/ local[q].id # name THEN fd[q]
        ELSE IF fd[q] = "temp" THEN "file"
        ELSE "orphan"]

\* after unlink(<name>.json) the file opened as the record file has no path
Unlinked(name) ==
    [q \in Procs |->
        IF fd[q] = "file" /\ local[q].id = name THEN "orphan" ELSE fd[q]]

\* a rename whose failure is swallowed
RenameSwallowsENOENT(p) ==
    /\ returned = NoReturn
    /\ pc[p] = "rename"
    /\ LET name == local[p].id IN
       IF temps[name] # NoFile
       THEN /\ files' = [files EXCEPT ![name] = temps[name]]
            /\ temps' = [temps EXCEPT ![name] = NoFile]
            /\ fd' = Renamed(name)
            /\ Returns(p, call[p], loaded[p], local[p], Reply(call[p].op, local[p]))
       ELSE /\ Returns(p, call[p], loaded[p], local[p], Reply(call[p].op, local[p]))
            /\ UNCHANGED <<files, temps, fd>>
    /\ UNCHANGED <<issued, now>>

\* a rename that gives up when the record file is no longer what the call
\* loaded
RenameIfUnchanged(p) ==
    /\ returned = NoReturn
    /\ pc[p] = "rename"
    /\ LET name == local[p].id IN
       IF temps[name] # NoFile /\ (loaded[p] = Null \/ files[name] = loaded[p])
       THEN /\ files' = [files EXCEPT ![name] = temps[name]]
            /\ temps' = [temps EXCEPT ![name] = NoFile]
            /\ fd' = Renamed(name)
            /\ Returns(p, call[p], loaded[p], local[p], Reply(call[p].op, local[p]))
       ELSE /\ Returns(p, call[p], loaded[p], local[p], Thrown("ENOENT"))
            /\ UNCHANGED <<files, temps, fd>>
    /\ UNCHANGED <<issued, now>>

\* save: renameSync(tempPath, filePath), which raises when the temporary
\* file is gone; then the handler's return
Rename(p) ==
    /\ returned = NoReturn
    /\ pc[p] = "rename"
    /\ LET name == local[p].id IN
       IF temps[name] # NoFile
       THEN /\ files' = [files EXCEPT ![name] = temps[name]]
            /\ temps' = [temps EXCEPT ![name] = NoFile]
            /\ fd' = Renamed(name)
            /\ Returns(p, call[p], loaded[p], local[p], Reply(call[p].op, local[p]))
       ELSE /\ Returns(p, call[p], loaded[p], local[p], Thrown("ENOENT"))
            /\ UNCHANGED <<files, temps, fd>>
    /\ UNCHANGED <<issued, now>>

\* remove: existsSync(filePath)
Exists(p) ==
    /\ returned = NoReturn
    /\ pc[p] = "exists"
    /\ LET name == getSecureFilePath(call[p].input.session_id).v IN
       IF ReadFile(name) = NoFile
       THEN Returns(p, call[p], loaded[p], local[p], removeReply(call[p], FALSE))
       ELSE Continues(p, call[p], loaded[p], local[p], "unlink")
    /\ UNCHANGED <<files, temps, issued, now, fd>>

\* an unlink that reports the deletion and leaves the file
UnlinkLeavesFile(p) ==
    /\ returned = NoReturn
    /\ pc[p] = "unlink"
    /\ Returns(p, call[p], loaded[p], local[p], removeReply(call[p], TRUE))
    /\ UNCHANGED <<files, fd, temps, issued, now>>

\* an unlink that deletes the file and reports that it did not
UnlinkReportsFailure(p) ==
    /\ returned = NoReturn
    /\ pc[p] = "unlink"
    /\ LET name == getSecureFilePath(call[p].input.session_id).v IN
       /\ files' = [files EXCEPT ![name] = NoFile]
       /\ fd' = Unlinked(name)
       /\ Returns(p, call[p], loaded[p], local[p], removeReply(call[p], FALSE))
    /\ UNCHANGED <<temps, issued, now>>

\* an unlink whose failure is not caught
UnlinkUncaught(p) ==
    /\ returned = NoReturn
    /\ pc[p] = "unlink"
    /\ LET name == getSecureFilePath(call[p].input.session_id).v IN
       IF ReadFile(name) # NoFile
       THEN /\ files' = [files EXCEPT ![name] = NoFile]
            /\ fd' = Unlinked(name)
            /\ Returns(p, call[p], loaded[p], local[p], removeReply(call[p], TRUE))
       ELSE /\ Returns(p, call[p], loaded[p], local[p], Thrown("ENOENT"))
            /\ UNCHANGED <<files, fd>>
    /\ UNCHANGED <<temps, issued, now>>

\* remove: unlinkSync(filePath), whose failure is caught; then the
\* handler's return
Unlink(p) ==
    /\ returned = NoReturn
    /\ pc[p] = "unlink"
    /\ LET name == getSecureFilePath(call[p].input.session_id).v IN
       IF ReadFile(name) # NoFile
       THEN /\ files' = [files EXCEPT ![name] = NoFile]
            /\ fd' = Unlinked(name)
            /\ Returns(p, call[p], loaded[p], local[p], removeReply(call[p], TRUE))
       ELSE /\ Returns(p, call[p], loaded[p], local[p], removeReply(call[p], FALSE))
            /\ UNCHANGED <<files, fd>>
    /\ UNCHANGED <<temps, issued, now>>

\* The caller takes the response.  `returned` is the register in which a
\* call hands its response to its caller; a response is taken before the
\* processes go on, which orders nothing among the system calls: taking a
\* response touches no file and no process.
Taken ==
    /\ returned # NoReturn
    /\ returned' = NoReturn
    /\ UNCHANGED <<files, temps, issued, pc, call, loaded, local, now, fd>>

(***************************************************************************)
(* Spec: the processes call the tools with well-formed inputs and their    *)
(* system calls interleave freely.                                         *)
(***************************************************************************)
Step(p) ==
    \/ PlStart(p, StartInputs)
    \/ PlSubmit(p, SubmitInputs)
    \/ PlFeedback(p, FeedbackInputs)
    \/ PlForceApprove(p, ForceApproveInputs)
    \/ PlDelete(p, DeleteInputs)
    \/ WriteTemp(p)
    \/ Rename(p)
    \/ Exists(p)
    \/ Unlink(p)

Next == Taken \/ \E p \in Procs : Step(p)

Spec == Init /\ [][Next]_vars

(***************************************************************************)
(* SeqSpec: one tool call at a time (a call starts when no other call is   *)
(* in progress), with the faulty inputs as well.                           *)
(***************************************************************************)
NoCallInProgress == \A q \in Procs : pc[q] = "idle"

SeqPlStart(p) == NoCallInProgress /\ PlStart(p, StartInputs \cup OtherStartInputs)

SeqPlSubmit(p) == NoCallInProgress /\ PlSubmit(p, SubmitInputs \cup OtherSubmitInputs)

SeqPlFeedback(p) == NoCallInProgress /\ PlFeedback(p, FeedbackInputs \cup OtherFeedbackInputs)

SeqPlForceApprove(p) ==
    NoCallInProgress /\ PlForceApprove(p, ForceApproveInputs \cup OtherForceApproveInputs)

SeqPlDelete(p) == NoCallInProgress /\ PlDelete(p, DeleteInputs \cup OtherDeleteInputs)

SeqPlGetPlan(p) == NoCallInProgress /\ PlGetPlan(p, GetPlanInputs)

SeqPlGetFeedback(p) == NoCallInProgress /\ PlGetFeedback(p, GetFeedbackInputs)

SeqPlStatus(p) == NoCallInProgress /\ PlStatus(p, StatusInputs)

SeqStep(p) ==
    \/ SeqPlGetPlan(p)
    \/ SeqPlGetFeedback(p)
    \/ SeqPlStatus(p)
    \/ SeqPlStart(p)
    \/ SeqPlSubmit(p)
    \/ SeqPlFeedback(p)
    \/ SeqPlForceApprove(p)
    \/ SeqPlDelete(p)
    \/ WriteTemp(p)
    \/ Rename(p)
    \/ Exists(p)
    \/ Unlink(p)

SeqNext == Taken \/ \E p \in Procs : SeqStep(p)

SeqSpec == Init /\ [][SeqNext]_vars

(***************************************************************************)
(* Properties.  In SeqSpec the call that has just returned ran alone, so   *)
(* returned.loaded is the stored record before the call and files holds    *)
(* the store after it.                                                     *)
(***************************************************************************)
IsSuccess(response) == response.t = "response" /\ ~response.isError

IsError(response) == response.t = "response" /\ response.isError

IsInvalidState(response, current, expected) ==
    /\ IsError(response)
    /\ response.text.error = "Invalid state"
    /\ response.text.current = current
    /\ response.text.expected = expected

\* a string with a character that is not white space
HasText(value) == value.t = "string" /\ \E i \in 1..Len(value.v) : value.v[i] # " "

\* the call that has just returned is one of tool `op` on a stored session
ReturnedOn(op) == returned.op = op /\ returned.loaded # Null

Stored(session) == files[session.id]

LatestPlanVersion(session) == session.plans[Len(session.plans)].version

\* C1: plSubmit succeeds exactly from drafting and pending_revision with a
\* non-empty plan; it then stores the loaded record with one more Plan of
\* version old version + 1, version + 1, status pending_review, iteration
\* and feedbacks as they were; from the three other states it returns the
\* 'Invalid state' error with the current status and the legal states.
C1_SubmitContract ==
    ReturnedOn("plSubmit") =>
        LET old == returned.loaded
            plan == returned.input.plan
            new == Stored(old)
        IN  /\ IsSuccess(returned.response)
                <=> (old.status \in {"drafting", "pending_revision"} /\ HasText(plan))
            /\ IsSuccess(returned.response) =>
                  /\ new.plans = Append(old.plans,
                                        [version |-> old.version + 1, content |-> plan.v])
                  /\ new.version = old.version + 1
                  /\ new.status = "pending_review"
                  /\ new.iteration = old.iteration
                  /\ new.feedbacks = old.feedbacks
                  /\ returned.response.text = [version |-> new.version, status |-> new.status]
            /\ old.status \in {"pending_review", "approved", "exhausted"} =>
                  /\ IsInvalidState(returned.response, old.status,
                                    <<"drafting", "pending_revision">>)
                  /\ new = old

C1_Witness ==
    /\ ReturnedOn("plSubmit")
    /\ returned.loaded.status = "pending_revision"
    /\ IsSuccess(returned.response)
    /\ Stored(returned.loaded).version = 2

\* C2: plFeedback is accepted only from pending_review; from the four other
\* states it returns the 'Invalid state' error and the stored record stays
\* as it was.
C2_FeedbackOnlyFromPendingReview ==
    ReturnedOn("plFeedback") =>
        LET old == returned.loaded IN
        /\ IsSuccess(returned.response) => old.status = "pending_review"
        /\ old.status # "pending_review" =>
              /\ IsInvalidState(returned.response, old.status, <<"pending_review">>)
              /\ Stored(old) = old

C2_Witness ==
    /\ ReturnedOn("plFeedback")
    /\ returned.loaded.status = "pending_revision"
    /\ IsError(returned.response)
    /\ returned.input.rating \in validRatings

\* C3: a successful plFeedback with the approve rating stores status
\* approved and one more feedback, on the latest plan's version, and leaves
\* iteration, version and plans as they were.
C3_ApproveEffect ==
    (ReturnedOn("plFeedback") /\ IsSuccess(returned.response) /\ returned.input.rating = GREEN) =>
        LET old == returned.loaded
            new == Stored(old)
        IN  /\ new.status = "approved"
            /\ new.feedbacks = Append(old.feedbacks,
                                      [planVersion |-> LatestPlanVersion(old), rating |-> GREEN,
                                       content |-> returned.input.content.v])
            /\ new.iteration = old.iteration
            /\ new.version = old.version
            /\ new.plans = old.plans

C3_Witness ==
    /\ ReturnedOn("plFeedback")
    /\ IsSuccess(returned.response)
    /\ returned.input.rating = GREEN
    /\ returned.loaded.iteration = 1
    /\ Stored(returned.loaded).status = "approved"

\* C4: a successful plFeedback with a non-approve rating stores iteration + 1
\* and status exhausted if the new iteration >= maxIterations, else
\* pending_revision, whichever of the two ratings it is.
C4_NonApproveEffect ==
    (ReturnedOn("plFeedback") /\ IsSuccess(returned.response)
        /\ returned.input.rating \in {RED, YELLOW}) =>
        LET old == returned.loaded
            new == Stored(old)
        IN  /\ new.iteration = old.iteration + 1
            /\ new.status = IF new.iteration >= new.maxIterations
                            THEN "exhausted" ELSE "pending_revision"
            /\ new.maxIterations = old.maxIterations

C4_Witness ==
    /\ ReturnedOn("plFeedback")
    /\ IsSuccess(returned.response)
    /\ returned.input.rating = YELLOW
    /\ returned.loaded.iteration = 1
    /\ Stored(returned.loaded).status = "exhausted"

\* C5: plForceApprove succeeds exactly from exhausted with a non-empty
\* reason; it then stores status approved and one more feedback: rating
\* approve, content the tagged reason, planVersion the latest plan's
\* version; iteration, version and plans stay.  Every other call returns an
\* error and leaves the stored record as it was.
C5_ForceApproveContract ==
    ReturnedOn("plForceApprove") =>
        LET old == returned.loaded
            reason == returned.input.reason
            new == Stored(old)
        IN  /\ IsSuccess(returned.response) <=> (old.status = "exhausted" /\ HasText(reason))
            /\ IsSuccess(returned.response) =>
                  /\ new.feedbacks =
                        Append(old.feedbacks,
                               [planVersion |-> LatestPlanVersion(old), rating |-> GREEN,
                                content |-> ForceApprovedTag \o reason.v])
                  /\ new.status = "approved"
                  /\ new.iteration = old.iteration
                  /\ new.version = old.version
                  /\ new.plans = old.plans
            /\ ~IsSuccess(returned.response) => IsError(returned.response) /\ new = old

C5_Witness ==
    /\ ReturnedOn("plForceApprove")
    /\ IsSuccess(returned.response)
    /\ returned.loaded.status = "exhausted"
    /\ Len(Stored(returned.loaded).feedbacks) = 3

\* C6: a plFeedback given plan_version succeeds only if plan_version is the
\* version of the latest plan of the loaded session; a call that is
\* otherwise in order and whose plan_version differs returns the mismatch
\* error with expected = that version and provided = plan_version, and the
\* stored record stays as it was.
C6_PlanVersionChecked ==
    (ReturnedOn("plFeedback") /\ returned.input.plan_version # Undefined
        /\ returned.input.plan_version.integer /\ returned.loaded.plans # <<>>) =>
        LET old == returned.loaded
            provided == returned.input.plan_version.v
            expected == LatestPlanVersion(old)
            inOrder == /\ old.status = "pending_review"
                       /\ returned.input.rating \in validRatings
                       /\ HasText(returned.input.content)
        IN  /\ IsSuccess(returned.response) => provided = expected
            /\ (inOrder /\ provided = expected) => IsSuccess(returned.response)
            /\ (inOrder /\ provided # expected) =>
                  /\ IsError(returned.response)
                  /\ returned.response.text =
                        [error |-> "Plan version mismatch", expected |-> expected,
                         provided |-> provided]
            /\ provided # expected => Stored(old) = old

\* the literal case of the specification: expected=2, provided=1
C6_Witness ==
    /\ ReturnedOn("plFeedback")
    /\ IsError(returned.response)
    /\ returned.response.text =
          [error |-> "Plan version mismatch", expected |-> 2, provided |-> 1]

(***************************************************************************)
(* Properties of the store under interleaved calls (Spec).                 *)
(***************************************************************************)
IsPrefix(a, b) == Len(a) <= Len(b) /\ SubSeq(b, 1, Len(a)) = a

\* process p is at the rename of its save and the step is that rename
RenamesIn(p) == pc[p] = "rename" /\ pc'[p] = "idle"

\* C7: a plFeedback call given plan_version never replaces a stored record
\* whose latest plan version differs from plan_version.
C7_NoStaleFeedbackWrite ==
    [][\A p \in Procs :
          (/\ RenamesIn(p)
           /\ call[p].op = "plFeedback"
           /\ call[p].input.plan_version # Undefined
           /\ files[local[p].id] # NoFile
           /\ files'[local[p].id] # files[local[p].id])
          => LatestPlanVersion(files[local[p].id]) = call[p].input.plan_version.v]_vars

\* C8: every stored record numbers its plans 1, 2, ... without a gap, and
\* its version is the number of its plans.
C8_PlanVersionsGapless ==
    \A name \in DOMAIN files :
        files[name] # NoFile =>
            /\ \A i \in 1..Len(files[name].plans) : files[name].plans[i].version = i
            /\ files[name].version = Len(files[name].plans)

C8_Witness ==
    /\ files[IdA] # NoFile
    /\ Len(files[IdA].plans) = 2
    /\ \E p \in Procs : pc[p] = "rename" /\ call[p].op = "plSubmit"

C10_IterationBounds ==
    \A name \in DOMAIN files :
        files[name] # NoFile =>
            LET session == files[name] IN
            /\ session.iteration <= session.maxIterations
            /\ session.status \in {"drafting", "pending_review", "pending_revision"}
                  => session.iteration < session.maxIterations
            /\ ~(session.iteration = session.maxIterations /\ session.status = "pending_revision")

C10_Witness ==
    /\ files[IdA] # NoFile
    /\ files[IdA].iteration = files[IdA].maxIterations
    /\ files[IdA].maxIterations = 2
    /\ files[IdA].status = "exhausted"

\* C11: in every stored record each feedback's planVersion is the version of
\* one of the record's plans and is at most the record's version, the
\* feedback plForceApprove appends included.
C11_FeedbackReferencesPlan ==
    \A name \in DOMAIN files :
        files[name] # NoFile =>
            \A i \in 1..Len(files[name].feedbacks) :
                /\ \E j \in 1..Len(files[name].plans) :
                      files[name].plans[j].version = files[name].feedbacks[i].planVersion
                /\ files[name].feedbacks[i].planVersion <= files[name].version

\* a stored record whose third feedback is the one of plForceApprove, on plan 2
C11_Witness ==
    /\ files[IdA] # NoFile
    /\ files[IdA].status = "approved"
    /\ Len(files[IdA].feedbacks) = 3
    /\ files[IdA].feedbacks[3].content = ForceApprovedTag \o <<"r">>
    /\ files[IdA].feedbacks[3].planVersion = 2
    /\ files[IdA].feedbacks[1].planVersion = 1

(***************************************************************************)
(* StoreSpec: the processes call the store itself (save, load, remove) and *)
(* the reading tools, on a record file of any content, and their system    *)
(* calls interleave freely.  Here writeFileSync is the three calls it      *)
(* makes: open (which creates or empties the file), write, close.          *)
(***************************************************************************)
\* the latest time the clock reaches
MaxClock == 1

Plan1 == [version |-> 1, content |-> <<"A">>]

Plan2 == [version |-> 2, content |-> <<"A">>]

FeedbackOn(planVersion, rating) ==
    [planVersion |-> planVersion, rating |-> rating, content |-> <<"c">>]

SessionOf(id, status, plans, feedbacks) ==
    [id |-> id, goal |-> <<"g">>, status |-> status, version |-> Len(plans), iteration |-> 0,
     maxIterations |-> 2, plans |-> plans, feedbacks |-> feedbacks,
     createdAt |-> 0, updatedAt |-> 0]

\* a record with one key more than the schema knows
WithOwner(session) ==
    [f \in SessionFields \cup {"owner"} |-> IF f = "owner" THEN <<"o">> ELSE session[f]]

\* a record without its goal
WithoutGoal(session) == [f \in SessionFields \ {"goal"} |-> session[f]]

\* an identifier in mixed case
MixedCase(s) == [i \in 1..Len(s) |-> IF i % 2 = 0 THEN toUpperCase(s)[i] ELSE s[i]]

Traversal == <<".", ".", "/", ".", ".", "/", "e", "t", "c", "/", "p", "a", "s", "s", "w", "d">>

\* the Session objects a caller hands to save: well-formed, the id in
\* either case, one with a key of its own, and one whose id is a path
StoreSessions ==
    {SessionOf(IdA, "drafting", <<>>, <<>>),
     SessionOf(toUpperCase(IdA), "pending_review", <<Plan1>>, <<>>),
     SessionOf(IdA, "approved", <<Plan1, Plan2>>, <<FeedbackOn(1, RED), FeedbackOn(2, GREEN)>>),
     WithOwner(SessionOf(IdA, "pending_revision", <<Plan1>>, <<FeedbackOn(1, RED)>>)),
     SessionOf(Traversal, "drafting", <<>>, <<>>)}

\* the identifiers a caller passes to load and remove
StoreIds ==
    {Str(IdA), Str(toUpperCase(IdA)), Str(MixedCase(IdA)), Str(IdB),
     Str(FakeId), Str(toUpperCase(FakeId)), Str(Traversal), Str(IdA \o <<"/", ".", ".">>),
     Str(<<"\\">> \o IdA), Str(<<>>), Num(7), Undefined}

\* what the record file of IdA holds when the processes start: nothing, a
\* record some program saved, or a file some other program left there
ValidFiles ==
    {SessionOf(IdA, "pending_review", <<Plan1>>, <<>>),
     SessionOf(IdA, "approved", <<Plan1>>, <<>>),
     SessionOf(IdA, "pending_review", <<Plan1, Plan2>>, <<FeedbackOn(1, RED)>>),
     SessionOf(IdA, "pending_revision", <<Plan1, Plan2>>, <<FeedbackOn(1, RED)>>),
     WithOwner(SessionOf(IdA, "drafting", <<>>, <<>>))}

CorruptFiles ==
    {Text(<<"x">>),
     WithoutGoal(SessionOf(IdA, "drafting", <<>>, <<>>)),
     SessionOf(IdA, "done", <<>>, <<>>),
     SessionOf(IdB, "drafting", <<>>, <<>>),
     SessionOf(toUpperCase(IdA), "drafting", <<>>, <<>>),
     [SessionOf(IdA, "drafting", <<>>, <<>>) EXCEPT !.version = -1]}

StoreInit ==
    /\ files \in [UuidPool -> {NoFile} \cup ValidFiles \cup CorruptFiles]
    /\ temps = [name \in UuidPool |-> NoFile]
    /\ issued = {}
    /\ pc = [p \in Procs |-> "idle"]
    /\ call = [p \in Procs |-> NoCall]
    /\ loaded = [p \in Procs |-> Null]
    /\ local = [p \in Procs |-> Null]
    /\ returned = NoReturn
    /\ now = 0
    /\ fd = [p \in Procs |-> "none"]

\* a save that leaves session.id as it was given
SaveCallKeepsId(p) ==
    /\ returned = NoReturn
    /\ pc[p] = "idle"
    /\ \E session \in StoreSessions :
          LET c == [op |-> "save", input |-> session]
              stamped == [session EXCEPT !.updatedAt = now]
              result == getSecureFilePath(Str(session.id))
          IN  IF result = Null
              THEN Returns(p, c, Null, stamped, Thrown("Cannot save session with invalid id"))
              ELSE Continues(p, c, Null, stamped, "open")
    /\ UNCHANGED <<files, temps, issued, now, fd>>

\* save, up to its writeFileSync: the stamp, the id check, the normalization
SaveCall(p) ==
    /\ returned = NoReturn
    /\ pc[p] = "idle"
    /\ \E session \in StoreSessions :
          LET c == [op |-> "save", input |-> session]
              stamped == [session EXCEPT !.updatedAt = now]
              result == getSecureFilePath(Str(session.id))
          IN  IF result = Null
              THEN Returns(p, c, Null, stamped, Thrown("Cannot save session with invalid id"))
              ELSE Continues(p, c, Null, [stamped EXCEPT !.id = result.v], "open")
    /\ UNCHANGED <<files, temps, issued, now, fd>>

\* writeFileSync: openSync(tempPath, 'w') creates the file or empties it
OpenTemp(p) ==
    /\ returned = NoReturn
    /\ pc[p] = "open"
    /\ temps' = [temps EXCEPT ![local[p].id] = Empty]
    /\ fd' = [fd EXCEPT ![p] = "temp"]
    /\ Continues(p, call[p], loaded[p], local[p], "fill")
    /\ UNCHANGED <<files, issued, now>>

\* What a file holds after a process wrote its document from the start of
\* the file: the document, or, when another document is in the file, the
\* document followed by the rest of the other if that one is longer.
Written(old, session) == IF old \in {Empty, session} THEN {session} ELSE {session, Mixed}

\* writeFileSync: writeSync and closeSync, on the file opened, wherever it
\* is by now
FillTemp(p) ==
    /\ returned = NoReturn
    /\ pc[p] = "fill"
    /\ LET name == local[p].id IN
       CASE fd[p] = "temp" ->
              /\ \E data \in Written(temps[name], local[p]) :
                    temps' = [temps EXCEPT ![name] = data]
              /\ UNCHANGED files
         [] fd[p] = "file" ->
              /\ \E data \in Written(files[name], local[p]) :
                    files' = [files EXCEPT ![name] = data]
              /\ UNCHANGED temps
         [] fd[p] = "orphan" -> UNCHANGED <<files, temps>>
    /\ fd' = [fd EXCEPT ![p] = "none"]
    /\ Continues(p, call[p], loaded[p], local[p], "rename")
    /\ UNCHANGED <<issued, now>>

\* load, up to its readFileSync: the id check and existsSync
LoadCall(p) ==
    /\ returned = NoReturn
    /\ pc[p] = "idle"
    /\ \E id \in StoreIds :
          LET c == [op |-> "load", input |-> [session_id |-> id]]
              pathResult == getSecureFilePath(id)
          IN  IF pathResult = Null THEN Returns(p, c, Null, Null, Null)
              ELSE IF ReadFile(pathResult.v) = NoFile THEN Returns(p, c, Null, Null, Null)
              ELSE Continues(p, c, Null, Null, "read")
    /\ UNCHANGED <<files, temps, issued, now, fd>>

\* load: readFileSync (whose failure is caught), JSON.parse, the schema, the
\* id check
ReadJson(p) ==
    /\ returned = NoReturn
    /\ pc[p] = "read"
    /\ LET normalizedId == getSecureFilePath(call[p].input.session_id).v
           data == ReadFile(normalizedId)
       IN  Returns(p, call[p], Null, Null,
                   IF data = NoFile THEN Null ELSE parseSession(data, normalizedId))
    /\ UNCHANGED <<files, temps, issued, now, fd>>

\* remove, up to its existsSync: the id check
RemoveCall(p) ==
    /\ returned = NoReturn
    /\ pc[p] = "idle"
    /\ \E id \in StoreIds :
          LET c == [op |-> "remove", input |-> [session_id |-> id]]
          IN  IF getSecureFilePath(id) = Null THEN Returns(p, c, Null, Null, Bool(FALSE))
              ELSE Continues(p, c, Null, Null, "exists")
    /\ UNCHANGED <<files, temps, issued, now, fd>>

\* time passes
Tick ==
    /\ returned = NoReturn
    /\ now < MaxClock
    /\ now' = now + 1
    /\ UNCHANGED <<files, temps, issued, pc, call, loaded, local, returned, fd>>

StoreStep(p) ==
    \/ SaveCall(p)
    \/ OpenTemp(p)
    \/ FillTemp(p)
    \/ Rename(p)
    \/ LoadCall(p)
    \/ ReadJson(p)
    \/ RemoveCall(p)
    \/ Exists(p)
    \/ Unlink(p)
    \/ PlGetFeedback(p, GetFeedbackInputs)

StoreNext == Taken \/ Tick \/ \E p \in Procs : StoreStep(p)

StoreSpec == StoreInit /\ [][StoreNext]_vars

(***************************************************************************)
(* Properties of the store (StoreSpec).                                    *)
(***************************************************************************)
\* process p is at the readFileSync of its load and the step is that read
ReadsIn(p) == pc[p] = "read" /\ pc'[p] = "idle"

\* the record file load(id) reads
FileOf(id) == ReadFile(getSecureFilePath(id).v)

\* C12: a load that reads the record file while saves are under way gets a
\* complete record, the one before a save or the one after it: whenever
\* the file read is there and is not one of the damaged files the store
\* started with, load returns a record.
C12_ReaderSeesCompleteRecord ==
    [][\A p \in Procs :
          (/\ ReadsIn(p)
           /\ FileOf(call[p].input.session_id) \notin {NoFile} \cup CorruptFiles)
          => returned'.response # Null]_vars

(***************************************************************************)
(* Lost updates and deletion (Spec).                                       *)
(***************************************************************************)
\* C13: no save and no delete notices that the stored record changed after
\* the call loaded it: the rename of plSubmit, plFeedback or plForceApprove
\* installs the call's own record and the call reports success, and the
\* unlink of plDelete removes the file and reports success, though the
\* record file is no longer the record the call loaded.
C13_LostUpdateUndetected ==
    [][\A p \in Procs :
          /\ (/\ RenamesIn(p)
              /\ call[p].op \in {"plSubmit", "plFeedback", "plForceApprove"}
              /\ temps[local[p].id] = local[p]
              /\ files[local[p].id] # loaded[p])
             => /\ files'[local[p].id] = local[p]
                /\ IsSuccess(returned'.response)
          /\ (/\ pc[p] = "unlink" /\ pc'[p] = "idle"
              /\ files[loaded[p].id] \notin {NoFile, loaded[p]})
             => /\ files'[loaded[p].id] = NoFile
                /\ IsSuccess(returned'.response)]_vars

\* Both processes loaded the record in pending_review without feedback.
\* The one stored its red feedback and went on to load the result for its
\* plSubmit; then the other's plFeedback returned success and the store
\* holds its green feedback alone.
C13_Witness ==
    /\ returned.op = "plFeedback"
    /\ IsSuccess(returned.response)
    /\ returned.loaded.feedbacks = <<>>
    /\ files[IdA] = returned.session
    /\ Len(files[IdA].feedbacks) = 1
    /\ files[IdA].feedbacks[1].rating = GREEN
    /\ \E q \in Procs \ {returned.proc} :
          /\ call[q].op = "plSubmit"
          /\ loaded[q].plans = returned.loaded.plans
          /\ Len(loaded[q].feedbacks) = 1
          /\ loaded[q].feedbacks[1].rating = RED

\* C14: plDelete on a stored session succeeds, without force, exactly from
\* approved and exhausted, and with force = true from every status; a call
\* that succeeds leaves no record file, a call that is refused returns an
\* error naming the current status and leaves the record as it was.
C14_DeleteGated ==
    ReturnedOn("plDelete") =>
        LET old == returned.loaded
            forced == returned.input.force = Bool(TRUE)
        IN  /\ IsSuccess(returned.response) <=>
                  (forced \/ old.status \in {"approved", "exhausted"})
            /\ IsSuccess(returned.response) => Stored(old) = NoFile
            /\ ~IsSuccess(returned.response) =>
                  /\ IsError(returned.response)
                  /\ returned.response.text.status = old.status
                  /\ Stored(old) = old

\* a delete refused in pending_review
C14_Witness ==
    /\ ReturnedOn("plDelete")
    /\ returned.input.force \in {Undefined, Bool(FALSE)}
    /\ returned.loaded.status = "pending_review"
    /\ IsError(returned.response)
    /\ Stored(returned.loaded) = returned.loaded

\* the session of identifier name was created, its record file is gone and
\* no process holds its record in a call
Gone(name) ==
    /\ name \in issued
    /\ files[name] = NoFile
    /\ \A p \in Procs : local[p] = Null \/ local[p].id # name

IsSessionNotFound(response) == IsError(response) /\ response.text.error = "Session not found"

\* C15, as claimed: a record file that a call on an existing session finds
\* gone at its rename (it was deleted after the call loaded it) is not
\* created again.
C15_DeletedStaysDeleted ==
    [][\A p \in Procs :
          (RenamesIn(p) /\ call[p].op # "plStart" /\ files[local[p].id] = NoFile)
          => files'[local[p].id] = NoFile]_vars

\* C15, amended: a plDelete that returns success has removed the record
\* file; once the file is gone and no call that loaded the record is in
\* progress, it stays gone, and every call on the identifier returns
\* 'Session not found'.
C15_DeletedStaysDeletedWhenNoneInFlight ==
    [][/\ \A p \in Procs :
             (pc[p] = "unlink" /\ pc'[p] = "idle" /\ IsSuccess(returned'.response))
             => files'[loaded[p].id] = NoFile
       /\ \A name \in DOMAIN files :
             Gone(name) =>
                /\ Gone(name)'
                /\ (returned' # NoReturn /\ returned'.op # "plStart")
                      => IsSessionNotFound(returned'.response)]_vars

\* after a delete, with no call in progress, a plSubmit found no session
C15_Witness ==
    /\ Gone(IdA)
    /\ \A p \in Procs : pc[p] = "idle"
    /\ returned.op = "plSubmit"
    /\ IsSessionNotFound(returned.response)

C17_CaseInsensitiveLookup ==
    /\ \A id \in StoreIds \cup {Null} :
          normalizeSessionId(normalizeSessionId(id)) = normalizeSessionId(id)
    /\ \A name \in DOMAIN files :
          /\ load(Str(toUpperCase(name))) = load(Str(name))
          /\ load(Str(MixedCase(name))) = load(Str(name))
          /\ load(Str(name)) # Null => load(Str(name)).id = name
          /\ files[name] \in ValidFiles \cup {s \in StoreSessions : s.id = name}
                => load(Str(name)) # Null

\* a load called with the identifier in upper case has returned the record
\* that a save given the identifier in upper case left
C17_Witness ==
    /\ returned.op = "load"
    /\ returned.input.session_id = Str(toUpperCase(IdA))
    /\ returned.response # Null
    /\ returned.response.id = IdA
    /\ returned.response.status = "pending_review"
    /\ returned.response.plans = <<Plan1>>
    /\ returned.response = load(Str(MixedCase(IdA)))

\* an identifier that is no string or does not have the UUID-v4 shape once
\* in lower case
IsMalformedId(id) == id.t # "string" \/ ~UUID_V4_REGEX(toLowerCase(id.v))

\* a string holding a path separator or two dots in a row
HasPathPart(id) ==
    /\ id.t = "string"
    /\ \/ \E i \in 1..Len(id.v) : id.v[i] \in {"/", "\\"}
       \/ \E i \in 1..(Len(id.v) - 1) : id.v[i] = "." /\ id.v[i + 1] = "."

\* the file name a process inside a store operation works on
TargetOf(p) ==
    IF call[p].op = "save" THEN local[p].id ELSE toLowerCase(call[p].input.session_id.v)

\* C18: load and remove given an identifier that is malformed (every
\* identifier with a path separator or '..' is) return null and false in
\* their first step, before any system call, and leave the files as they
\* are; and every process at a system call of save, load or remove works on
\* a file named by a UUID, a direct child of the state directory.
C18_MalformedIdTouchesNothing ==
    [][/\ \A id \in StoreIds : HasPathPart(id) \/ id.t # "string" \/ id.v = <<>>
                                  => IsMalformedId(id)
       /\ (/\ returned' # NoReturn
           /\ returned'.op \in {"load", "remove"}
           /\ IsMalformedId(returned'.input.session_id))
          => /\ pc[returned'.proc] = "idle"
             /\ returned'.response = (IF returned'.op = "load" THEN Null ELSE Bool(FALSE))
             /\ files' = files /\ temps' = temps
       /\ \A p \in Procs :
             (pc'[p] # "idle" /\ call'[p].op \in {"save", "load", "remove"})
             => (UUID_V4_REGEX(TargetOf(p)') /\ ~HasPathPart(Str(TargetOf(p)')))]_vars

\* remove given a path has returned false and the record file is still there
C18_Witness ==
    /\ returned.op = "remove"
    /\ returned.input.session_id = Str(Traversal)
    /\ returned.response = Bool(FALSE)
    /\ files[IdA] \in ValidFiles

\* C19: load returns a record only when the file of the canonical id is
\* there, is a JSON object with every field of a session, a status among
\* the five, and an id field equal to the canonical id; without one of
\* these it returns null, and a call of load never leaves by an exception.
\* A file <A>.json whose id field is B loads neither as A nor as B.
C19_LoadOnlyWhatIsValid ==
    /\ \A name \in DOMAIN files :
          LET data == files[name]
              got == load(Str(name))
          IN  /\ got # Null =>
                    /\ data # NoFile
                    /\ "t" \notin DOMAIN data
                    /\ SessionFields \subseteq DOMAIN data
                    /\ data.status \in SessionStatus
                    /\ data.id = name
                    /\ \A f \in SessionFields : got[f] = data[f]
              /\ data \in ValidFiles => got # Null
              /\ ("id" \in DOMAIN data /\ data.id # name)
                    => load(Str(name)) = Null /\ load(Str(data.id)) = Null
    /\ returned.op = "load" =>
          \/ returned.response = Null
          \/ "t" \notin DOMAIN returned.response

\* load of A has returned null on a file A.json whose id field is B
C19_Witness ==
    /\ returned.op = "load"
    /\ returned.input.session_id = Str(IdA)
    /\ returned.response = Null
    /\ "id" \in DOMAIN files[IdA]
    /\ files[IdA].id = IdB
    /\ load(Str(IdB)) = Null

\* C20: plGetFeedback on a session that load returned answers: not ready,
\* 'no_plan_submitted', when the session has no plan; else, when it has no
\* feedback or its latest feedback is on a version below the latest plan's,
\* not ready, 'awaiting_feedback' in pending_review and 'no_feedback_yet' in
\* any other status; else ready with the latest feedback.
C20_GetFeedbackAnswer ==
    ReturnedOn("plGetFeedback") =>
        LET s == returned.loaded
            answer == returned.response.text
            plans == Len(s.plans)
            feedbacks == Len(s.feedbacks)
        IN  /\ IsSuccess(returned.response)
            /\ IF plans = 0
               THEN answer = [ready |-> FALSE, reason |-> "no_plan_submitted"]
               ELSE IF feedbacks = 0 \/ s.feedbacks[feedbacks].planVersion < s.plans[plans].version
               THEN (IF s.status = "pending_review"
                     THEN answer = [ready |-> FALSE, reason |-> "awaiting_feedback"]
                     ELSE answer = [ready |-> FALSE, reason |-> "no_feedback_yet"])
               ELSE answer = [ready |-> TRUE, data |-> s.feedbacks[feedbacks]]

\* the latest feedback is on plan 1, the latest plan is plan 2, the status
\* is not pending_review
C20_Witness ==
    /\ ReturnedOn("plGetFeedback")
    /\ Len(returned.loaded.plans) = 2
    /\ Len(returned.loaded.feedbacks) = 1
    /\ returned.loaded.status = "pending_revision"
    /\ returned.response.text = [ready |-> FALSE, reason |-> "no_feedback_yet"]

\* C21: plGetPlan on an existing session answers not ready,
\* 'no_plan_submitted', exactly when the session has no plan, and otherwise
\* ready with the last element of plans, whose version is the session's
\* version; on a well-formed id with no stored session it answers with an
\* error and not with a not-ready result.
C21_GetPlanAnswer ==
    returned.op = "plGetPlan" =>
        LET s == returned.loaded
            answer == returned.response.text
        IN  IF s # Null
            THEN /\ IsSuccess(returned.response)
                 /\ (answer = [ready |-> FALSE, reason |-> "no_plan_submitted"]) <=> (Len(s.plans) = 0)
                 /\ Len(s.plans) > 0 =>
                       /\ answer = [ready |-> TRUE, data |-> s.plans[Len(s.plans)]]
                       /\ answer.data.version = s.version
            ELSE IsError(returned.response)

\* plGetPlan has answered with the second of two plans
C21_Witness ==
    /\ ReturnedOn("plGetPlan")
    /\ Len(returned.loaded.plans) = 2
    /\ returned.response.text.ready
    /\ returned.response.text.data.version = 2

ToolsOnASession ==
    {"plSubmit", "plGetPlan", "plFeedback", "plGetFeedback", "plStatus", "plForceApprove", "plDelete"}

\* the call that has just returned was given a non-empty identifier that is
\* not of UUID v4 shape
ReturnedOnMalformedId ==
    /\ returned.op \in ToolsOnASession
    /\ isNonEmptyString(returned.input.session_id)
    /\ IsMalformedId(returned.input.session_id)

\* C22, as claimed: a tool given a non-empty malformed identifier answers
\* with an error other than the 'Session not found' it gives for a
\* well-formed identifier that names no session.
C22_MalformedIdDistinguished ==
    ReturnedOnMalformedId => IsError(returned.response) /\ ~IsSessionNotFound(returned.response)

\* C22: a tool given a non-empty malformed identifier answers as it does for
\* a well-formed identifier that names no session, with the error
\* 'Session not found' on the identifier given.
C22_MalformedIdIsNotFound ==
    /\ ReturnedOnMalformedId =>
          returned.response =
              errorResponse([error |-> "Session not found", session_id |-> returned.input.session_id])
    /\ (returned.op \in ToolsOnASession /\ returned.input.session_id = Str(IdB)) =>
          returned.response =
              errorResponse([error |-> "Session not found", session_id |-> returned.input.session_id])

\* plStatus has answered a call on 'fake-id' while a session is stored
C22_Witness ==
    /\ returned.op = "plStatus"
    /\ returned.input.session_id = Str(FakeId)
    /\ IsSessionNotFound(returned.response)
    /\ files[IdA] # NoFile

\* the validation errors of a call with a faulty field
FieldErrors(op, input) ==
    IF op = "plSubmit"
    THEN (IF ~isNonEmptyString(input.plan) THEN {"plan is required"} ELSE {})
    ELSE IF op = "plFeedback"
    THEN (IF input.rating \notin validRatings THEN {"Invalid rating"} ELSE {})
         \cup (IF ~isNonEmptyString(input.content) THEN {"content is required"} ELSE {})
         \cup (IF input.plan_version # Undefined /\ input.plan_version.t # "number"
               THEN {"plan_version must be an integer"} ELSE {})
    ELSE IF op = "plForceApprove"
    THEN (IF ~isNonEmptyString(input.reason) THEN {"reason is required"} ELSE {})
    ELSE {}

\* C23, as claimed: a plSubmit with a blank plan, a plFeedback with an
\* unknown rating, blank content or a plan_version that is no integer, and a
\* plForceApprove with a blank reason, on a stored session, return the
\* validation error of such a field whatever the session's status is.
C23_FieldErrorWhateverTheStatus ==
    (ReturnedOn("plSubmit") \/ ReturnedOn("plFeedback") \/ ReturnedOn("plForceApprove")) =>
        (FieldErrors(returned.op, returned.input) # {} =>
            /\ IsError(returned.response)
            /\ returned.response.text.error \in FieldErrors(returned.op, returned.input))

\* C24: a plStart with a non-empty goal and a maxIterations left out or a
\* positive integer takes an identifier never given out before and stores
\* one new record under it and no other: status drafting, version 0,
\* iteration 0, no plans, no feedbacks, maxIterations the value given or 5;
\* with a blank goal or a maxIterations that is zero, negative or no integer
\* it returns an error and the store stays as it was.
C24_StartContract ==
    [][/\ \A p \in Procs :
             (pc[p] = "idle" /\ pc'[p] = "write" /\ call'[p].op = "plStart") =>
                 local'[p].id \notin issued /\ files[local'[p].id] = NoFile
       /\ returned'.op = "plStart" =>
             LET input == returned'.input
                 m == input.maxIterations
                 accepted == /\ isNonEmptyString(input.goal)
                             /\ m = Undefined \/ (m.t = "number" /\ m.integer /\ m.v >= 1)
             IN  IF accepted
                 THEN /\ IsSuccess(returned'.response)
                      /\ \E id \in UuidPool :
                            /\ returned'.response.text = [session_id |-> id]
                            /\ files[id] = NoFile
                            /\ files' = [files EXCEPT ![id] =
                                  [id |-> id, goal |-> input.goal.v, status |-> "drafting",
                                   version |-> 0, iteration |-> 0,
                                   maxIterations |-> IF m = Undefined THEN 5 ELSE m.v,
                                   plans |-> <<>>, feedbacks |-> <<>>,
                                   createdAt |-> files'[id].createdAt,
                                   updatedAt |-> files'[id].updatedAt]]
                 ELSE /\ IsError(returned'.response)
                      /\ files' = files
                      /\ temps' = temps]_vars

\* a plStart without maxIterations has stored a record with maxIterations 5
C24_Witness ==
    /\ returned.op = "plStart"
    /\ returned.input.maxIterations = Undefined
    /\ IsSuccess(returned.response)
    /\ files[returned.response.text.session_id].maxIterations = 5
    /\ files[returned.response.text.session_id].status = "drafting"

\* C25: a call that returns an error result leaves the store as it was: the
\* step that returns the error changes no record file and no temporary
\* file, a call that has begun to save does not end in an error result, and
\* no step of a call changes a file but the writes of a save and the unlink
\* of a remove that reports the deletion.
C25_ErrorLeavesStore ==
    [][/\ (returned'.op # "none" /\ IsError(returned'.response)) =>
             files' = files /\ temps' = temps
       /\ \A p \in Procs :
             (pc[p] \in {"write", "rename"} /\ pc'[p] = "idle") => ~IsError(returned'.response)
       /\ (files' # files \/ temps' # temps) =>
             \E p \in Procs :
                \/ pc[p] = "write" /\ pc'[p] = "rename"
                \/ pc[p] = "rename" /\ pc'[p] = "idle"
                \/ pc[p] = "unlink" /\ pc'[p] = "idle" /\ IsSuccess(returned'.response)]_vars

\* a plFeedback has been refused for its plan_version and the record with
\* its updatedAt is the one the call loaded
C25_Witness ==
    /\ ReturnedOn("plFeedback")
    /\ IsError(returned.response)
    /\ returned.response.text.error = "Plan version mismatch"
    /\ Stored(returned.loaded) = returned.loaded

QueryTools == {"plGetPlan", "plGetFeedback", "plStatus"}

\* C26: plGetPlan, plGetFeedback and plStatus are one step that changes no
\* record file and no temporary file and starts no save and no remove; a
\* plStatus on a stored session returns that stored record, whole.
C26_QueriesReadOnly ==
    [][/\ \A p \in Procs : call'[p].op \notin QueryTools
       /\ returned'.op \in QueryTools =>
             /\ pc[returned'.proc] = "idle"
             /\ files' = files
             /\ temps' = temps
             /\ (returned'.op = "plStatus" /\ returned'.loaded # Null) =>
                   /\ files[returned'.loaded.id] # NoFile
                   /\ returned'.response = successResponse(files[returned'.loaded.id])]_vars

\* plStatus has returned a stored record with two plans and two feedbacks
C26_Witness ==
    /\ ReturnedOn("plStatus")
    /\ returned.response = successResponse(Stored(returned.loaded))
    /\ Len(returned.response.text.plans) = 2
    /\ Len(returned.response.text.feedbacks) = 2

(***************************************************************************)
(* state.list over a directory of two record files and their temporary    *)
(* files.  The file of identifier name is <name>.json, its temporary file  *)
(* <name>.json.tmp.  ListSpec starts from a directory that is empty or     *)
(* holds files no load accepts, and lets two processes create sessions,    *)
(* save them again in another status and list the directory, while time    *)
(* passes or does not.                                                     *)
(***************************************************************************)
ListNames == {IdA, IdB}

JsonSuffix == <<".", "j", "s", "o", "n">>

TmpSuffix == <<".", "t", "m", "p">>

endsWith(s, suffix) ==
    Len(s) >= Len(suffix) /\ SubSeq(s, Len(s) - Len(suffix) + 1, Len(s)) = suffix

\* the places where part occurs in s
Occurrences(s, part) ==
    {i \in 1..(Len(s) - Len(part) + 1) : SubSeq(s, i, i + Len(part) - 1) = part}

\* String.prototype.replace with a string pattern: the first occurrence
replace(s, part, by) ==
    IF Occurrences(s, part) = {} THEN s
    ELSE LET i == CHOOSE k \in Occurrences(s, part) : \A j \in Occurrences(s, part) : k <= j
         IN  SubSeq(s, 1, i - 1) \o by \o SubSeq(s, i + Len(part), Len(s))

\* readdirSync(getStateDir()): the names in the state directory
readdirSync ==
    {name \o JsonSuffix : name \in {n \in DOMAIN files : files[n] # NoFile}}
    \cup {name \o JsonSuffix \o TmpSuffix : name \in {n \in DOMAIN temps : temps[n] # NoFile}}

\* session.goal.length > 30 ? session.goal.slice(0, 30) + '...' : session.goal
truncatedGoal(goal) ==
    IF Len(goal) > 30 THEN SubSeq(goal, 1, 30) \o <<".", ".", ".">> ELSE goal

Summary(session) ==
    [id |-> session.id, goal |-> truncatedGoal(session.goal), status |-> session.status,
     createdAt |-> session.createdAt, updatedAt |-> session.updatedAt]

\* options.sort and options.order: one of the words of ListOptions
Word(v) == [t |-> "word", v |-> v]

\* options.status: left out, one status, or an array of statuses
OneStatus(status) == [t |-> "status", v |-> status]

StatusArray(statuses) == [t |-> "array", v |-> statuses]

\* a filter that looks at the first status of an array only
statusFilterFirstOnly(status) ==
    IF status = Undefined THEN Null
    ELSE IF status.t = "array"
    THEN StatusArray(IF Len(status.v) = 0 THEN <<>> ELSE <<status.v[1]>>)
    ELSE StatusArray(<<status.v>>)

\* status ? (Array.isArray(status) ? status : [status]) : null
statusFilter(status) ==
    IF status = Undefined THEN Null
    ELSE IF status.t = "array" THEN status
    ELSE StatusArray(<<status.v>>)

\* the files list loads, and for each the summary it maps it to or Null
listed(options) ==
    LET names == {f \in readdirSync : endsWith(f, JsonSuffix) /\ ~endsWith(f, TmpSuffix)}
        filter == statusFilter(options.status)
        entry(f) ==
            LET session == load(Str(replace(f, JsonSuffix, <<>>)))
            IN  IF session = Null THEN Null
                ELSE IF filter # Null /\ ~includes(filter.v, session.status) THEN Null
                ELSE Summary(session)
    IN  [f \in names |-> entry(f)]

\* the sequences that hold each member of a set once
RECURSIVE Orders(_)
Orders(S) ==
    IF S = {} THEN {<<>>}
    ELSE UNION {{<<x>> \o rest : rest \in Orders(S \ {x})} : x \in S}

\* a comparator that always compares createdAt
compareCreatedAt(a, b, sort, order) ==
    IF order = "asc" THEN a.createdAt - b.createdAt ELSE b.createdAt - a.createdAt

\* (a, b) => order === 'asc' ? aTime - bTime : bTime - aTime
compare(a, b, sort, order) ==
    IF order = "asc" THEN a[sort] - b[sort] ELSE b[sort] - a[sort]

\* list: the arrays it may return.  readdirSync gives the names in an order
\* of the file system's choosing and Array.prototype.sort is stable, so the
\* result is any arrangement of the summaries that the comparator does not
\* object to.
list(options) ==
    LET sort == IF options.sort = Undefined THEN "updatedAt" ELSE options.sort.v
        order == IF options.order = Undefined THEN "desc" ELSE options.order.v
        entries == listed(options)
        kept == {f \in DOMAIN entries : entries[f] # Null}
    IN  {[i \in 1..Len(fs) |-> entries[fs[i]]] :
            fs \in {o \in Orders(kept) :
                      \A i \in 1..(Len(o) - 1) :
                         compare(entries[o[i]], entries[o[i + 1]], sort, order) <= 0}}

\* the options list is called with: no filter, one status, an array of
\* statuses, an empty array; the default order and three others
ListOptions ==
    {[status |-> status, sort |-> so[1], order |-> so[2]] :
        status \in {Undefined, OneStatus("approved"),
                    StatusArray(<<"drafting", "pending_review">>), StatusArray(<<>>)},
        so \in {<<Undefined, Undefined>>, <<Word("createdAt"), Word("asc")>>,
                <<Word("updatedAt"), Word("asc")>>, <<Word("createdAt"), Undefined>>}}

\* files in the directory that are no record of theirs: not JSON, or the
\* record of another session
ListCorruptFiles == {Text(<<"x">>), SessionOf(FakeId, "drafting", <<>>, <<>>)}

ListInit ==
    /\ files \in [ListNames -> {NoFile} \cup ListCorruptFiles]
    /\ temps = [name \in ListNames |-> NoFile]
    /\ issued = {}
    /\ pc = [p \in Procs |-> "idle"]
    /\ call = [p \in Procs |-> NoCall]
    /\ loaded = [p \in Procs |-> Null]
    /\ local = [p \in Procs |-> Null]
    /\ returned = NoReturn
    /\ now = 0
    /\ fd = [p \in Procs |-> "none"]

\* state.create(goal), up to save's writeFileSync
ListCreate(p) ==
    /\ returned = NoReturn
    /\ pc[p] = "idle"
    /\ \E uuid \in {n \in ListNames \ issued : files[n] = NoFile} :
          /\ Continues(p, [op |-> "create", input |-> [goal |-> Str(<<"g">>)]], Null,
                       create(<<"g">>, DefaultMaxIterations, uuid), "write")
          /\ issued' = issued \cup {uuid}
    /\ UNCHANGED <<files, temps, now, fd>>

\* a caller loads a session, gives it another status and saves it:
\* state.save, up to its writeFileSync
ListSave(p) ==
    /\ returned = NoReturn
    /\ pc[p] = "idle"
    /\ \E name \in ListNames, status \in {"pending_review", "approved"} :
          LET session == load(Str(name))
          IN  /\ session # Null
              /\ session.status # status
              /\ Continues(p, [op |-> "save", input |-> [session EXCEPT !.status = status]],
                           session, [session EXCEPT !.status = status, !.updatedAt = now],
                           "write")
    /\ UNCHANGED <<files, temps, issued, now, fd>>

ListCall(p) ==
    /\ returned = NoReturn
    /\ pc[p] = "idle"
    /\ \E options \in ListOptions : \E sessions \in list(options) :
          Returns(p, [op |-> "list", input |-> options], Null, Null, sessions)
    /\ UNCHANGED <<files, temps, issued, now, fd>>

ListStep(p) ==
    \/ ListCreate(p)
    \/ ListSave(p)
    \/ WriteTemp(p)
    \/ Rename(p)
    \/ ListCall(p)

ListNext == Taken \/ Tick \/ \E p \in Procs : ListStep(p)

ListSpec == ListInit /\ [][ListNext]_vars

\* the record files that load accepts and whose status the filter lets through
Wanted(options) ==
    {n \in DOMAIN files :
        /\ load(Str(n)) # Null
        /\ \/ options.status = Undefined
           \/ options.status.t = "status" /\ load(Str(n)).status = options.status.v
           \/ options.status.t = "array"
              /\ load(Str(n)).status \in {options.status.v[i] : i \in 1..Len(options.status.v)}}

\* C27: list returns one summary, and one only, for each record file that
\* loads and whose status is the status asked for or one of the statuses
\* asked for (any status when none is asked for), and nothing else: a file
\* that does not load and a temporary file have no entry and the listing
\* still returns the others.
C27_ListIsTheLoadableMatches ==
    returned.op = "list" =>
        LET sessions == returned.response
            wanted == Wanted(returned.input)
        IN  /\ Len(sessions) = Cardinality(wanted)
            /\ \A n \in wanted :
                  \E i \in 1..Len(sessions) :
                     /\ sessions[i].id = n
                     /\ sessions[i].status = files[n].status
                     /\ sessions[i].goal = files[n].goal
                     /\ sessions[i].createdAt = files[n].createdAt
                     /\ sessions[i].updatedAt = files[n].updatedAt
            /\ \A i \in 1..Len(sessions) : sessions[i].id \in wanted

\* a listing of one session out of a directory that also holds a file that
\* does not load and a temporary file
C27_Witness ==
    /\ returned.op = "list"
    /\ returned.input.status = StatusArray(<<"drafting", "pending_review">>)
    /\ Len(returned.response) = 1
    /\ returned.response[1].status = "pending_review"
    /\ \E n \in ListNames : files[n] \in ListCorruptFiles
    /\ \E n \in ListNames : temps[n] # NoFile

DefaultListOptions == [status |-> Undefined, sort |-> Undefined, order |-> Undefined]

\* C28, as claimed: after a save, a list with the default options has the
\* session just saved first.
C28_MostRecentlySavedFirst ==
    (returned.op \in {"create", "save"} /\ returned.response # Thrown("ENOENT")) =>
        \A sessions \in list(DefaultListOptions) : sessions[1].id = returned.session.id

\* C28: list returns its summaries in the order of the timestamp asked for,
\* createdAt or updatedAt, ascending or descending, and of updatedAt
\* descending when nothing is asked for; so with the default options a
\* session whose updatedAt is later than every other's comes first.
C28_ListOrdered ==
    returned.op = "list" =>
        LET sessions == returned.response
            sort == IF returned.input.sort = Undefined THEN "updatedAt" ELSE returned.input.sort.v
            ascending == returned.input.order = Word("asc")
        IN  /\ \A i, j \in 1..Len(sessions) :
                  i < j => IF ascending THEN sessions[i][sort] <= sessions[j][sort]
                           ELSE sessions[i][sort] >= sessions[j][sort]
            /\ returned.input = DefaultListOptions =>
                  \A i \in 1..Len(sessions) :
                     (\A j \in 1..Len(sessions) :
                         j # i => sessions[j].updatedAt < sessions[i].updatedAt) => i = 1

\* a default listing of two sessions, the one saved later first, though it
\* was created first
C28_Witness ==
    /\ returned.op = "list"
    /\ returned.input = DefaultListOptions
    /\ Len(returned.response) = 2
    /\ returned.response[1].updatedAt > returned.response[2].updatedAt
    /\ returned.response[1].createdAt <= returned.response[2].createdAt
    /\ returned.response[1].status = "approved"

(***************************************************************************)
(* Two sessions, each worked on by one process: PairSpec starts with the   *)
(* records of two sessions that plStart has stored and lets p1 call the    *)
(* tools on the one and p2 on the other, their steps interleaved freely.   *)
(***************************************************************************)
OwnSession(p) == IF p = "p1" THEN IdA ELSE IdB

\* the calls of a set, made on the session of identifier id
On(inputs, id) == {[input EXCEPT !.session_id = Str(id)] : input \in inputs}

PairInit ==
    /\ now = 0
    /\ files \in {[n \in ListNames |-> create(<<"g">>, m[n], n)] :
                     m \in [ListNames -> 1..MaxIterationsAsked]}
    /\ temps = [name \in ListNames |-> NoFile]
    /\ issued = ListNames
    /\ pc = [p \in Procs |-> "idle"]
    /\ call = [p \in Procs |-> NoCall]
    /\ loaded = [p \in Procs |-> Null]
    /\ local = [p \in Procs |-> Null]
    /\ returned = NoReturn
    /\ fd = [p \in Procs |-> "none"]

PairStep(p) ==
    \/ PlSubmit(p, On(SubmitInputs, OwnSession(p)))
    \/ PlFeedback(p, On(FeedbackInputs, OwnSession(p)))
    \/ PlForceApprove(p, On(ForceApproveInputs, OwnSession(p)))
    \/ PlDelete(p, On(DeleteInputs, OwnSession(p)))
    \/ WriteTemp(p)
    \/ Rename(p)
    \/ Exists(p)
    \/ Unlink(p)

PairNext == Taken \/ \E p \in Procs : PairStep(p)

PairSpec == PairInit /\ [][PairNext]_vars

\* what the handler of tool op decides on a record
Decide(op, input, session) ==
    CASE op = "plSubmit" -> plSubmit(input, session)
      [] op = "plFeedback" -> plFeedback(input, session)
      [] op = "plForceApprove" -> plForceApprove(input, session)
      [] op = "plDelete" -> plDelete(input, session)

\* process p takes the step
Acts(p) == pc'[p] # pc[p] \/ (returned' # NoReturn /\ returned'.proc = p)

\* C29: calls of two processes on two different sessions do not conflict,
\* however their loads and saves interleave: a step of a process changes no
\* record file and no temporary file but those of its own session; the
\* rename of a save stores what the handler, run alone at that moment on
\* the record then stored, would store; the unlink of a delete removes a
\* record that the handler, run alone at that moment, would delete.  Each
\* call thus acts on its record as it does in a run of one call after the
\* other.
C29_DifferentSessionsNoConflict ==
    [][\A p \in Procs :
          Acts(p) =>
             LET n == OwnSession(p)
                 stored == load(Str(n))
             IN  /\ \A m \in DOMAIN files \ {n} : files'[m] = files[m] /\ temps'[m] = temps[m]
                 /\ (pc[p] = "rename" /\ pc'[p] = "idle") =>
                       /\ stored # Null
                       /\ Decide(call[p].op, call[p].input, stored).next = "save"
                       /\ files'[n] = [Decide(call[p].op, call[p].input, stored).session
                                          EXCEPT !.updatedAt = now]
                       /\ IsSuccess(returned'.response)
                 /\ (pc[p] = "unlink" /\ pc'[p] = "idle") =>
                       /\ stored # Null
                       /\ Decide(call[p].op, call[p].input, stored).next = "remove"
                       /\ files'[n] = NoFile
                       /\ IsSuccess(returned'.response)]_vars

\* p1's plFeedback has stored its record while p2 was between the
\* writeFileSync and the renameSync of a save on the other session
C29_Witness ==
    /\ returned.op = "plFeedback"
    /\ returned.proc = "p1"
    /\ IsSuccess(returned.response)
    /\ files[IdA].status = "pending_revision"
    /\ pc["p2"] = "rename"
    /\ temps[IdB] # NoFile

(***************************************************************************)
(* TimedSpec: the tools that write a session, called by two processes      *)
(* whose steps interleave freely, while the clock goes on.                 *)
(***************************************************************************)
TimedStartInputs ==
    {[goal |-> Str(goal), maxIterations |-> m] :
        goal \in {<<"g">>, <<" ", "h">>}, m \in {Num(1), Num(2)}}

\* plFeedback without plan_version
TimedFeedbackInputs == {input \in FeedbackInputs : input.plan_version = Undefined}

TimedStep(p) ==
    \/ PlStart(p, TimedStartInputs)
    \/ PlSubmit(p, SubmitInputs)
    \/ PlFeedback(p, TimedFeedbackInputs)
    \/ PlForceApprove(p, ForceApproveInputs)
    \/ WriteTemp(p)
    \/ Rename(p)

TimedNext == Taken \/ Tick \/ \E p \in Procs : TimedStep(p)

TimedSpec == Init /\ [][TimedNext]_vars

\* C30: the id, goal, maxIterations and createdAt that plStart wrote stay in
\* the stored record through every plSubmit, plFeedback and plForceApprove,
\* overlapping or not: plStart stores the goal and maxIterations it was
\* given, the id it returns and the time of the call, and no later step
\* stores a record that differs from the stored one in any of the four.
C30_CreationFieldsKept ==
    [][/\ (returned'.op = "plStart" /\ IsSuccess(returned'.response)) =>
             LET record == files'[returned'.response.text.session_id] IN
             /\ record.id = returned'.response.text.session_id
             /\ record.goal = returned'.input.goal.v
             /\ record.maxIterations = IF returned'.input.maxIterations = Undefined
                                       THEN 5 ELSE returned'.input.maxIterations.v
             /\ record.createdAt <= now
       /\ \A n \in DOMAIN files :
             files[n] # NoFile =>
                /\ files'[n] # NoFile
                /\ files'[n].id = files[n].id
                /\ files'[n].goal = files[n].goal
                /\ files'[n].maxIterations = files[n].maxIterations
                /\ files'[n].createdAt = files[n].createdAt]_vars

\* a plSubmit has returned after the clock went on: the record it stored
\* was updated later than it was created
C30_Witness ==
    /\ ReturnedOn("plSubmit")
    /\ IsSuccess(returned.response)
    /\ Stored(returned.loaded).updatedAt > Stored(returned.loaded).createdAt
    /\ Stored(returned.loaded).goal = <<" ", "h">>
    /\ \E p \in Procs : pc[p] = "rename"

\* C31: save raises exactly when the id of the session it is given fails
\* the test after normalization, and it raises then before it has opened a
\* file: no record file and no temporary file changes.  A save that returns
\* normally returns from its rename: the temporary file was there, the
\* record file now holds what the temporary file held, and the temporary
\* path is free.
C31_SaveRaisesOrRenames ==
    [][/\ \A p \in Procs :
             (pc[p] = "idle" /\ returned'.op = "save" /\ returned'.proc = p) =>
                 /\ returned'.response = Thrown("Cannot save session with invalid id")
                 /\ ~isValidSessionId(normalizeSessionId(Str(returned'.input.id)))
                 /\ files' = files
                 /\ temps' = temps
       /\ \A p \in Procs :
             (pc[p] = "idle" /\ pc'[p] = "open" /\ call'[p].op = "save") =>
                 isValidSessionId(normalizeSessionId(Str(call'[p].input.id)))
       /\ (returned'.op = "save" /\ returned'.response = Void) =>
             LET name == returned'.session.id IN
             /\ pc[returned'.proc] = "rename"
             /\ temps[name] # NoFile
             /\ files'[name] = temps[name]
             /\ temps'[name] = NoFile]_vars

\* a save of a session whose id is a path has raised and the directory is
\* as it was, with a record in it
C31_Witness ==
    /\ returned.op = "save"
    /\ returned.input.id = Traversal
    /\ returned.response = Thrown("Cannot save session with invalid id")
    /\ files[IdA] \in ValidFiles
    /\ temps[IdA] = NoFile

\* C32: the record a save serializes carries the lower-case form of the id
\* it was given, which has the UUID shape, and the file it is written to
\* and renamed to is the one of that name; so a session given in upper case
\* is saved, and every record that comes to stand in a record file has the
\* file's name as its id.  A record file is named by its canonical id, so
\* there is one per id.
C32_StoredUnderCanonicalId ==
    [][/\ \A p \in Procs :
             (pc[p] = "idle" /\ call'[p].op = "save") =>
                 /\ local'[p].id = [i \in 1..Len(call'[p].input.id) |->
                                       IF call'[p].input.id[i] \in DOMAIN UpperToLower
                                       THEN UpperToLower[call'[p].input.id[i]]
                                       ELSE call'[p].input.id[i]]
                 /\ UUID_V4_REGEX(local'[p].id)
                 /\ local'[p].id \in DOMAIN files
       /\ \A p \in Procs :
             (pc[p] = "idle" /\ returned'.op = "save" /\ returned'.proc = p) =>
                 returned'.input.id \notin {IdA, toUpperCase(IdA)}
       /\ \A n \in DOMAIN files :
             (files'[n] # files[n] /\ files'[n] # NoFile /\ JSONparse(files'[n]) # Null) =>
                 /\ files'[n].id = n
                 /\ \A i \in 1..Len(n) : n[i] \notin DOMAIN UpperToLower
                 /\ parseSession(files'[n], n) # Null]_vars

\* a session given with its id in upper case is in the record file of the
\* lower-case id, with that id
C32_Witness ==
    /\ returned.op = "save"
    /\ returned.input.id = toUpperCase(IdA)
    /\ returned.response = Void
    /\ files[IdA] = [returned.input EXCEPT !.id = IdA, !.updatedAt = files[IdA].updatedAt]
    /\ load(Str(IdA)) # Null

\* C33: in every stored record iteration <= version <= iteration + 1 and
\* version <= maxIterations; in drafting version and iteration are 0, in
\* pending_review version is iteration + 1, in pending_revision version is
\* iteration, in exhausted iteration, version and maxIterations are equal;
\* so a record never holds more than maxIterations plans.
C33_CountersFollowStatus ==
    \A name \in DOMAIN files :
        files[name] # NoFile =>
            LET session == files[name] IN
            /\ session.iteration <= session.version
            /\ session.version <= session.iteration + 1
            /\ session.version <= session.maxIterations
            /\ session.status = "drafting" => session.version = 0 /\ session.iteration = 0
            /\ session.status = "pending_review" => session.version = session.iteration + 1
            /\ session.status = "pending_revision" => session.version = session.iteration
            /\ session.status = "exhausted" =>
                  /\ session.iteration = session.version
                  /\ session.version = session.maxIterations
            /\ Len(session.plans) <= session.maxIterations

\* a record under review for its second plan, stored by a plSubmit while
\* the other process is before the rename of its own save
C33_Witness ==
    /\ files[IdA] # NoFile
    /\ files[IdA].status = "pending_review"
    /\ files[IdA].version = 2
    /\ files[IdA].iteration = 1
    /\ returned.op = "plSubmit"
    /\ IsSuccess(returned.response)
    /\ \E q \in Procs : pc[q] = "rename"

\* C34: in every stored record the feedbacks that do not approve are
\* iteration many, at most one feedback approves and it is the last one,
\* and the number of feedbacks is iteration, plus one when the status is
\* approved.
C34_FeedbackHistoryCounts ==
    \A name \in DOMAIN files :
        files[name] # NoFile =>
            LET session == files[name]
                feedbacks == session.feedbacks
                approving == {i \in 1..Len(feedbacks) : feedbacks[i].rating = GREEN}
            IN  /\ Len(feedbacks) - Cardinality(approving) = session.iteration
                /\ Cardinality(approving) <= 1
                /\ approving \subseteq {Len(feedbacks)}
                /\ Len(feedbacks) = session.iteration
                                    + (IF session.status = "approved" THEN 1 ELSE 0)

\* a session exhausted at maxIterations 2 and approved by override: two
\* rejections and the override's entry
C34_Witness ==
    /\ returned.op = "plForceApprove"
    /\ IsSuccess(returned.response)
    /\ files[IdA] # NoFile
    /\ files[IdA].maxIterations = 2
    /\ files[IdA].status = "approved"
    /\ Len(files[IdA].feedbacks) = 3
    /\ files[IdA].feedbacks[3].content = ForceApprovedTag \o <<"r">>
    /\ \A i \in 1..2 : files[IdA].feedbacks[i].rating # GREEN

\* C35: a stored record with a plan is in pending_review exactly when no
\* feedback answers its latest plan, that is when it has no feedback or its
\* last feedback is on a version below the record's; so plGetFeedback never
\* answers 'no_feedback_yet' on a record the tools stored.
C35_PendingReviewIffUnanswered ==
    /\ \A name \in DOMAIN files :
          (files[name] # NoFile /\ Len(files[name].plans) >= 1) =>
              LET session == files[name]
                  n == Len(session.feedbacks)
              IN  (session.status = "pending_review")
                     <=> (n = 0 \/ session.feedbacks[n].planVersion < session.version)
    /\ ReturnedOn("plGetFeedback") =>
          /\ IsSuccess(returned.response)
          /\ returned.response.text # [ready |-> FALSE, reason |-> "no_feedback_yet"]

\* plGetFeedback has answered 'awaiting_feedback' on a record whose feedback
\* is on the plan before the latest
C35_Witness ==
    /\ ReturnedOn("plGetFeedback")
    /\ returned.response.text = [ready |-> FALSE, reason |-> "awaiting_feedback"]
    /\ Len(returned.loaded.plans) = 2
    /\ Len(returned.loaded.feedbacks) = 1
    /\ returned.loaded.feedbacks[1].planVersion = 1

WritingTools == {"plSubmit", "plFeedback", "plForceApprove"}

\* C36, as claimed: once a record file holds an approved record, every
\* record the file holds later is approved with the same plans, feedbacks,
\* version and iteration, whatever calls are under way.
C36_ApprovedAbsorbing ==
    [][\A n \in DOMAIN files :
          (files[n] # NoFile /\ files[n].status = "approved" /\ files'[n] # NoFile) =>
              /\ files'[n].status = "approved"
              /\ files'[n].plans = files[n].plans
              /\ files'[n].feedbacks = files[n].feedbacks
              /\ files'[n].version = files[n].version
              /\ files'[n].iteration = files[n].iteration]_vars

\* C36: plSubmit, plFeedback and plForceApprove on a record loaded as
\* approved return the 'Invalid state' error and save nothing, so an
\* approved record is replaced only by the save of a call that loaded the
\* record before it was approved.
C36_ApprovedKeptByLaterCalls ==
    [][/\ (returned'.op \in WritingTools /\ returned'.loaded # Null
           /\ returned'.loaded.status = "approved") =>
             /\ returned'.response.t = "response"
             /\ returned'.response.isError
             /\ returned'.response.text.error = "Invalid state"
             /\ returned'.response.text.current = "approved"
             /\ files' = files /\ temps' = temps
       /\ \A p \in Procs :
             (pc'[p] \in {"write", "rename"} /\ call'[p].op \in WritingTools) =>
                 loaded'[p].status # "approved"
       /\ \A n \in DOMAIN files :
             (files[n] # NoFile /\ files[n].status = "approved"
              /\ files'[n] # NoFile /\ files'[n] # files[n]) =>
                 \E p \in Procs :
                    /\ pc[p] = "rename"
                    /\ local[p].id = n
                    /\ loaded[p] # files[n]
                    /\ loaded[p].status # "approved"]_vars

\* a plSubmit on the approved record has been refused and the record is as
\* it was
C36_Witness ==
    /\ ReturnedOn("plSubmit")
    /\ returned.loaded.status = "approved"
    /\ IsInvalidState(returned.response, "approved", <<"drafting", "pending_revision">>)
    /\ Stored(returned.loaded) = returned.loaded

(***************************************************************************)
(* FairSpec: the planning loop on one session, one call at a time, never   *)
(* deleted.  A call runs to its return (the core is synchronous), and the  *)
(* operation the status gate accepts is issued again and again: a call     *)
(* that goes on to save is taken if it can be taken infinitely often.      *)
(***************************************************************************)
FairStep(p) ==
    \/ NoCallInProgress /\ PlStart(p, StartInputs)
    \/ NoCallInProgress /\ PlSubmit(p, SubmitInputs)
    \/ NoCallInProgress /\ PlFeedback(p, FeedbackInputs)
    \/ NoCallInProgress /\ PlForceApprove(p, ForceApproveInputs)
    \/ WriteTemp(p)
    \/ Rename(p)

FairNext == Taken \/ \E p \in Procs : FairStep(p)

\* a plSubmit, plFeedback or plForceApprove that passes its checks and
\* goes on to save (the steps PlSubmit, PlFeedback and PlForceApprove,
\* restricted to the calls that save)
Accepted ==
    /\ NoCallInProgress
    /\ returned = NoReturn
    /\ UNCHANGED issued
    /\ \E id \in {input.session_id : input \in SubmitInputs}
                \cup {input.session_id : input \in FeedbackInputs}
                \cup {input.session_id : input \in ForceApproveInputs} :
       \E session \in {load(id)} :
          \/ \E input \in {i \in SubmitInputs : i.session_id = id} :
             \E decided \in {plSubmit(input, session)} :
                /\ decided.next = "save"
                /\ \E p \in Procs : Proceed(p, "plSubmit", input, session, decided)
          \/ \E input \in {i \in FeedbackInputs : i.session_id = id} :
             \E decided \in {plFeedback(input, session)} :
                /\ decided.next = "save"
                /\ \E p \in Procs : Proceed(p, "plFeedback", input, session, decided)
          \/ \E input \in {i \in ForceApproveInputs : i.session_id = id} :
             \E decided \in {plForceApprove(input, session)} :
                /\ decided.next = "save"
                /\ \E p \in Procs : Proceed(p, "plForceApprove", input, session, decided)

FairSpec ==
    /\ Init
    /\ [][FairNext]_vars
    /\ WF_vars(Taken)
    /\ \A p \in Procs : WF_vars(WriteTemp(p) \/ Rename(p))
    /\ SF_vars(Accepted)

AcceptedTool(status) ==
    CASE status \in {"drafting", "pending_revision"} -> "plSubmit"
      [] status = "pending_review" -> "plFeedback"
      [] status = "exhausted" -> "plForceApprove"

RefusedForStatus(response) ==
    /\ response.t = "response"
    /\ response.isError
    /\ response.text.error = "Invalid state"

\* C37: with calls that do not overlap, (1) on a record that is not approved
\* the status gate lets through exactly one of plSubmit, plFeedback and
\* plForceApprove: plSubmit from drafting and pending_revision, plFeedback
\* from pending_review, plForceApprove from exhausted; (2) the successful
\* operations on a record, one per plan and one per feedback entry, number
\* at most 2 * maxIterations + 1; (3) if the accepted operation is issued
\* whenever it stays possible, a session that exists reaches approved.
C37_NeverStuckAndFinishes ==
    /\ [](\A op \in WritingTools :
             (ReturnedOn(op) /\ returned.loaded # Null
              /\ returned.loaded.status # "approved") =>
                 (~RefusedForStatus(returned.response)
                     <=> op = AcceptedTool(returned.loaded.status)))
    /\ [](\A n \in DOMAIN files :
             files[n] # NoFile =>
                 Len(files[n].plans) + Len(files[n].feedbacks)
                     <= 2 * files[n].maxIterations + 1)
    /\ \A n \in UuidPool :
          (files[n] # NoFile) ~> (files[n] # NoFile /\ files[n].status = "approved")

\* the longest loop: every plan was refused until the cap, and the
\* exhausted session was force-approved
C37_Witness ==
    /\ ReturnedOn("plForceApprove")
    /\ IsSuccess(returned.response)
    /\ returned.loaded.status = "exhausted"
    /\ returned.loaded.maxIterations = MaxIterationsAsked
    /\ Stored(returned.loaded).status = "approved"
    /\ Len(Stored(returned.loaded).plans) + Len(Stored(returned.loaded).feedbacks)
          = 2 * MaxIterationsAsked + 1

\* C38, as claimed: whenever no save is under way, whatever saves of the
\* same session overlapped before, no temporary file is left and the record
\* file holds a whole document that one writer wrote: it is neither empty
\* nor the start of one record followed by the end of another.
C38_OverlappingSavesLeaveOneRecord ==
    (\A p \in Procs : pc[p] = "idle") =>
        \A name \in DOMAIN files :
           /\ temps[name] = NoFile
           /\ files[name] # Empty
           /\ files[name] # Mixed

\* p is inside the remove of a plDelete
InDelete(p) == call[p] # NoCall /\ call[p].op = "plDelete" /\ pc[p] \in {"exists", "unlink"}

Saving(p) == pc[p] \in {"write", "rename"}

\* C39: of two plDelete calls on the same session that overlap, at most one
\* answers deleted:true and the other answers the error 'Failed to delete
\* session'; neither leaves by an exception.  In steps: a plDelete that got
\* past its checks never throws, answers deleted:true exactly when its own
\* unlink removed the record file and 'Failed to delete session' when the
\* file was gone; while both calls are inside remove nothing puts the file
\* back; and once one has removed it the file stays away until the other
\* has answered.
C39_OneOfOverlappingDeletesWins ==
    [][\A p \in Procs :
          InDelete(p) =>
             LET name == getSecureFilePath(call[p].input.session_id).v IN
             /\ pc'[p] = "idle" =>
                   /\ returned'.proc = p
                   /\ returned'.response.t = "response"
                   /\ IF pc[p] = "unlink" /\ files[name] # NoFile
                      THEN /\ returned'.response =
                                 successResponse([deleted |-> TRUE,
                                                  session_id |-> call[p].input.session_id])
                           /\ files'[name] = NoFile
                      ELSE /\ returned'.response.isError
                           /\ returned'.response.text.error = "Failed to delete session"
                           /\ files' = files
             /\ \A q \in Procs \ {p} :
                   InDelete(q) => files'[name] \in {files[name], NoFile}
             /\ (files[name] = NoFile /\ \A q \in Procs \ {p} : ~Saving(q)) =>
                   /\ files'[name] = NoFile
                   /\ \A q \in Procs \ {p} : ~Saving(q)']_vars

\* the second of two overlapping plDelete calls has answered: it had loaded
\* the session, and the other call removed the file before its unlink
C39_Witness ==
    /\ ReturnedOn("plDelete")
    /\ IsError(returned.response)
    /\ returned.response.text.error = "Failed to delete session"
    /\ \A name \in DOMAIN files : files[name] = NoFile
====
